---- MODULE Spec2Model ----
(***************************************************************************)
(* Weekly market table extractor of the seafood analysis scripts.          *)
(*                                                                         *)
(* The extractor exists three times with the same two loops:               *)
(*   ComprehensiveSeafoodAnalysis._parse_weekly_data                       *)
(*       (src/comprehensive_analysis.py:91-132), repeated verbatim as      *)
(*       parse_weekly_data (databricks-notebook.py:127-169), and           *)
(*   RealSeafoodAnalysis._parse_weekly_statistics                          *)
(*       (src/real_data_analysis.py:36-79).                                *)
(* The variable impl says which copy runs.  A run is modelled statement by *)
(* statement: the start-row search, the extraction loop, the numeric       *)
(* conversion of the collected rows and the return.                        *)
(*                                                                         *)
(* Strings are sequences of one-character strings, so that str.strip, the  *)
(* substring test and equality are computed and not assumed.  Numbers are  *)
(* integers (the spreadsheet's floats at a fixed precision).               *)
(***************************************************************************)
EXTENDS Integers, Sequences, FiniteSets, TLC

\* one call of the extractor, statement by statement
VARIABLES grid, week, category, impl, pc, i, data_start, data_rows, origin, result

\* a series of calls of the three copies, the real-data copy on one object
VARIABLES self_df, cleaned_df, calls

\* one run of a loader over its files, followed by the analysis
VARIABLES loader, excel_files, queue, next_file, all_data, caught, escaped, combined_df, lpc, report

\* one call of get_page_content, attempt by attempt
VARIABLES url, max_retries, attempt, events, fetched

\* one exploration of a site by a downloader, call by call
VARIABLES explorer, site, down, stack, fetches, explored

\* the download loop of a downloader over the files it found
VARIABLES downloader, all_files, attempted, downloaded_files, failed_downloads, returned

\* one run of the fishing-events notebook, cell by cell
VARIABLES listing, payload, at_cell, read_files, raw_df, processed_events_df, port_visits_df, port_analysis_df, processing_report

\* the saves of the fishing-events notebook: the file being saved, the position in save_processed_data, what the storage holds, the part file found, every step taken
VARIABLES file_no, at_step, storage, csv_file, steps_taken

extractorVars == <<grid, week, category, impl, pc, i, data_start, data_rows, origin, result>>

callVars == <<self_df, cleaned_df, calls>>

loaderVars == <<loader, excel_files, queue, next_file, all_data, caught, escaped, combined_df, lpc, report>>

fetchVars == <<url, max_retries, attempt, events, fetched>>

exploreVars == <<explorer, site, down, stack, fetches, explored>>

downloadVars == <<downloader, all_files, attempted, downloaded_files, failed_downloads, returned>>

fishVars == <<listing, payload, at_cell, read_files, raw_df, processed_events_df, port_visits_df, port_analysis_df, processing_report>>

saveVars == <<file_no, at_step, storage, csv_file, steps_taken>>

restVars == <<exploreVars, downloadVars, fishVars, saveVars>>

vars == <<extractorVars, callVars, loaderVars, fetchVars, restVars>>

\* what the statements of one extractor call leave alone
outsideExtractor == <<callVars, loaderVars, fetchVars, restVars>>

\* what a call in the series leaves alone
outsideCalls == <<extractorVars, loaderVars, fetchVars, restVars>>

\* what a loader run leaves alone
outsideLoader == <<extractorVars, callVars, fetchVars, restVars>>

\* what a call of get_page_content leaves alone
outsideFetch == <<extractorVars, callVars, loaderVars, restVars>>

----------------------------------------------------------------------------
(* Bounds of the explored inputs *)

MaxRows == 3

----------------------------------------------------------------------------
(* Cells: what pandas hands back for one spreadsheet cell *)

NaN == [k |-> "nan", s |-> <<>>, v |-> 0]

StrCell(chars) == [k |-> "str", s |-> chars, v |-> 0]

NumCell(n) == [k |-> "num", s |-> <<>>, v |-> n]

\* pd.notna(x)
notna(c) == c.k # "nan"

Digits == <<"0", "1", "2", "3", "4", "5", "6", "7", "8", "9">>

\* repr of a non-negative integer, most significant digit first
RECURSIVE DigitsOf(_)
DigitsOf(n) == IF n < 10 THEN <<Digits[n + 1]>>
               ELSE DigitsOf(n \div 10) \o <<Digits[(n % 10) + 1]>>

\* str(x): a string is itself, a missing value prints as "nan"
str(c) == CASE c.k = "str" -> c.s
            [] c.k = "nan" -> <<"n", "a", "n">>
            [] OTHER -> IF c.v < 0 THEN <<"-">> \o DigitsOf(-c.v) ELSE DigitsOf(c.v)

RECURSIVE lstrip(_)
lstrip(s) == IF s # <<>> /\ Head(s) = " " THEN lstrip(Tail(s)) ELSE s

RECURSIVE rstrip(_)
rstrip(s) == IF s # <<>> /\ s[Len(s)] = " " THEN rstrip(SubSeq(s, 1, Len(s) - 1)) ELSE s

\* s.strip()
strip(s) == rstrip(lstrip(s))

\* sub in s
Contains(sub, s) == \E p \in 1..(Len(s) - Len(sub) + 1) : SubSeq(s, p, p + Len(sub) - 1) = sub

TOTALT == <<"T", "O", "T", "A", "L", "T">>

\* the exclusion made by the substring test of the search
NotTotalt_Substring(c) == ~Contains(TOTALT, str(c))

\* the comparison made on the trimmed text
NotTotalt_Trimmed(c) == strip(str(c)) # TOTALT

\* x != 'TOTALT' on the raw cell: only a string can equal the literal
NotTotalt(c) == ~(c.k = "str" /\ c.s = TOTALT)

DigitVal(ch) == CHOOSE d \in 0..9 : Digits[d + 1] = ch

IsDigits(s) == s # <<>> /\ \A p \in 1..Len(s) : \E d \in 1..10 : Digits[d] = s[p]

RECURSIVE ParseDigits(_)
ParseDigits(s) == IF s = <<>> THEN 0
                  ELSE 10 * ParseDigits(SubSeq(s, 1, Len(s) - 1)) + DigitVal(s[Len(s)])

\* errors='ignore': what cannot be parsed is left as it is
to_numeric_Ignore(c) == CASE c.k = "num" -> c
                          [] c.k = "nan" -> NaN
                          [] IsDigits(c.s) -> NumCell(ParseDigits(c.s))
                          [] c.s # <<>> /\ Head(c.s) = "-" /\ IsDigits(Tail(c.s)) -> NumCell(0 - ParseDigits(Tail(c.s)))
                          [] OTHER -> c

\* pd.to_numeric(x, errors='coerce') on one element: numbers pass, numeric
\* strings are parsed, anything else becomes the missing value
to_numeric(c) == CASE c.k = "num" -> c
                   [] c.k = "nan" -> NaN
                   [] IsDigits(c.s) -> NumCell(ParseDigits(c.s))
                   [] c.s # <<>> /\ Head(c.s) = "-" /\ IsDigits(Tail(c.s)) -> NumCell(0 - ParseDigits(Tail(c.s)))
                   [] OTHER -> NaN

\* .fillna(0) on one element
fillna0(c) == IF notna(c) THEN c ELSE NumCell(0)

----------------------------------------------------------------------------
(* The grid read by pd.read_excel(file, header=None): rows of cells *)

\* column of the market label, row.iloc[2]
LabelCol == 2

\* number of columns a market row is read up to, row.iloc[10] being the last
NumCols == 11

\* the eight numeric columns in the order of the dict literal
NumericCols == <<"Current_Week_Volume", "Current_Week_Price", "Previous_Year_Volume", "Previous_Year_Price", "YTD_Current_Volume", "YTD_Current_Price", "YTD_Previous_Volume", "YTD_Previous_Price">>

\* volume and price columns read the wrong way round
ColOf_Swapped(f) == IF f % 2 = 1 THEN f + LabelCol + 1 ELSE f + LabelCol - 1

\* the columns read one too far to the right
ColOf_Shifted(f) == f + LabelCol + 1

\* the column read for the f-th numeric field: row.iloc[3] .. row.iloc[10]
ColOf(f) == f + LabelCol

\* row.iloc[c] (c counted from 0) of a row that has this column
iloc(row, c) == row[c + 1]

\* row.iloc[c] raises IndexError
OutOfBounds(row, c) == c >= Len(row)

\* len(df)
len(df) == Len(df)

USA == <<"U", "S", "A">>

Labels == {NaN, StrCell(TOTALT), StrCell(<<" ">> \o TOTALT \o <<" ">>), StrCell(TOTALT \o <<" ", "2">>), StrCell(USA), StrCell(<<" ">> \o USA \o <<" ">>), StrCell(<<" ", " ">>), StrCell(<<"n", "a", "n">>), StrCell(<<" ", "n", "a", "n">>)}

Kinds == <<"nan", "bad", "numstr", "num">>

Patterns == 0..3

\* the cell of numeric field f in row r under pattern p: every field meets
\* every kind of cell, and the numbers differ by row and by column
NumericCell(r, f, p) == LET kind == Kinds[((f - 1 + p) % 4) + 1]
                            n == 10 * r + f
                        IN CASE kind = "nan" -> NaN
                             [] kind = "bad" -> StrCell(<<"-">>)
                             [] kind = "numstr" -> StrCell(DigitsOf(n))
                             [] OTHER -> NumCell(n)

\* columns 0 and 1 are metadata; column 0 holds the sentinel text to show
\* that only column 2 is looked at
FullRow(r, label, p) == <<StrCell(TOTALT), NaN, label>> \o [f \in 1..8 |-> NumericCell(r, f, p)]

MkGrid(labels, p, ncols) == [r \in 1..Len(labels) |-> SubSeq(FullRow(r, labels[r], p), 1, ncols)]

LabelSeqs == UNION {[1..n -> Labels] : n \in 0..MaxRows}

\* widths explored: no label column, label column but too few numeric
\* columns, the full layout
Grids == {MkGrid(ls, 0, 2) : ls \in LabelSeqs} \cup {MkGrid(ls, 0, 5) : ls \in LabelSeqs} \cup {MkGrid(ls, p, NumCols) : ls \in LabelSeqs, p \in Patterns}

Impls == {"comprehensive", "real"}

Weeks == {36}

Categories == {"laks_og_orret"}

----------------------------------------------------------------------------
(* One call of the extractor *)

NoStart == -1

Running == [status |-> "running", rows |-> <<>>]

\* RealSeafoodAnalysis.__init__: self.df = None, self.cleaned_df = None
Unset == [status |-> "None", rows |-> <<>>]

\* no loader running
LoaderIdle == /\ loader = "none"
              /\ excel_files = <<>>
              /\ queue = <<>>
              /\ next_file = 0
              /\ all_data = <<>>
              /\ caught = <<>>
              /\ escaped = FALSE
              /\ combined_df = Unset
              /\ lpc = "idle"
              /\ report = <<>>

\* no page being fetched
FetchIdle == /\ url = ""
             /\ max_retries = 0
             /\ attempt = 0
             /\ events = <<>>
             /\ fetched = "idle"

ExploreIdle == /\ explorer = "none"
               /\ site = <<>>
               /\ down = {}
               /\ stack = <<>>
               /\ fetches = <<>>
               /\ explored = "idle"

DownloadIdle == /\ downloader = "none"
                /\ all_files = <<>>
                /\ attempted = 0
                /\ downloaded_files = <<>>
                /\ failed_downloads = <<>>
                /\ returned = <<>>

FishIdle == /\ listing = <<>>
            /\ payload = <<>>
            /\ at_cell = "idle"
            /\ read_files = <<>>
            /\ raw_df = Unset
            /\ processed_events_df = Unset
            /\ port_visits_df = Unset
            /\ port_analysis_df = Unset
            /\ processing_report = Unset

SaveIdle == /\ file_no = 0
            /\ at_step = "idle"
            /\ storage = {}
            /\ csv_file = <<>>
            /\ steps_taken = <<>>

\* the statement-by-statement call not in use
ExtractorIdle == /\ grid = <<>>
                 /\ week = 0
                 /\ category = ""
                 /\ impl = "none"
                 /\ pc = "idle"
                 /\ i = 0
                 /\ data_start = NoStart
                 /\ data_rows = <<>>
                 /\ origin = <<>>
                 /\ result = Running

\* no call of the series made yet
NoCalls == /\ self_df = <<>>
           /\ cleaned_df = Unset
           /\ calls = <<>>

\* what an exploration of the site leaves alone
outsideExplore == <<extractorVars, callVars, loaderVars, fetchVars, downloadVars, fishVars, saveVars>>

\* nothing but an exploration of the site in use
ExploreAlone == ExtractorIdle /\ NoCalls /\ LoaderIdle /\ FetchIdle /\ DownloadIdle /\ FishIdle /\ SaveIdle

RestIdle == ExploreIdle /\ DownloadIdle /\ FishIdle /\ SaveIdle

\* what the download loop leaves alone
outsideDownload == <<extractorVars, callVars, loaderVars, fetchVars, exploreVars, fishVars, saveVars>>

\* nothing but the download loop in use
DownloadAlone == ExtractorIdle /\ NoCalls /\ LoaderIdle /\ FetchIdle /\ ExploreIdle /\ FishIdle /\ SaveIdle

\* what a run of the fishing-events notebook leaves alone
outsideFish == <<extractorVars, callVars, loaderVars, fetchVars, exploreVars, downloadVars, saveVars>>

\* nothing but a run of the fishing-events notebook in use
FishAlone == ExtractorIdle /\ NoCalls /\ LoaderIdle /\ FetchIdle /\ ExploreIdle /\ DownloadIdle /\ SaveIdle

\* what the saving of the tables leaves alone
outsideSave == <<extractorVars, callVars, loaderVars, fetchVars, exploreVars, downloadVars, fishVars>>

\* nothing but the saving of the tables in use
SaveAlone == ExtractorIdle /\ NoCalls /\ LoaderIdle /\ FetchIdle /\ ExploreIdle /\ DownloadIdle /\ FishIdle

Init == /\ grid \in Grids
        /\ week \in Weeks
        /\ category \in Categories
        /\ impl \in Impls
        /\ pc = "find"
        /\ i = 0
        /\ data_start = NoStart
        /\ data_rows = <<>>
        /\ origin = <<>>
        /\ result = Running
        /\ NoCalls
        /\ LoaderIdle
        /\ FetchIdle
        /\ RestIdle

Row == grid[i + 1]

Raise == /\ result' = [status |-> "IndexError", rows |-> <<>>]
         /\ pc' = "done"

\* the search reading the first column instead of the label column
IsStartRow_FirstCol(row) == notna(iloc(row, 0)) /\ Contains(TOTALT, str(iloc(row, 0)))

\* the test of the search loop
IsStartRow(row) == notna(iloc(row, LabelCol)) /\ Contains(TOTALT, str(iloc(row, LabelCol)))

\* for i, row in df.iterrows(): if ... 'TOTALT' in str(row.iloc[2]): break
FindRaise == /\ pc = "find" /\ i < len(grid)
             /\ OutOfBounds(Row, LabelCol)
             /\ Raise
             /\ UNCHANGED <<outsideExtractor, grid, week, category, impl, i, data_start, data_rows, origin>>

\* the extraction loop starting at the first row instead of at data_start
FindMatch_FromTop == /\ pc = "find" /\ i < len(grid)
                     /\ ~OutOfBounds(Row, LabelCol)
                     /\ IsStartRow(Row)
                     /\ data_start' = i
                     /\ i' = 0
                     /\ pc' = "extract"
                     /\ UNCHANGED <<outsideExtractor, grid, week, category, impl, data_rows, origin, result>>

\* the search without its break: the last sentinel row becomes the start
FindMatch_LastMatch == /\ pc = "find" /\ i < len(grid)
                       /\ ~OutOfBounds(Row, LabelCol)
                       /\ IsStartRow(Row)
                       /\ \E last \in i..(len(grid) - 1) :
                              /\ IsStartRow(grid[last + 1])
                              /\ \A q \in (last + 1)..(len(grid) - 1) : ~IsStartRow(grid[q + 1])
                              /\ data_start' = last
                              /\ i' = last
                       /\ pc' = "extract"
                       /\ UNCHANGED <<outsideExtractor, grid, week, category, impl, data_rows, origin, result>>

FindMatch == /\ pc = "find" /\ i < len(grid)
             /\ ~OutOfBounds(Row, LabelCol)
             /\ IsStartRow(Row)
             /\ data_start' = i
             /\ pc' = "extract"
             /\ UNCHANGED <<outsideExtractor, grid, week, category, impl, i, data_rows, origin, result>>

FindNext == /\ pc = "find" /\ i < len(grid)
            /\ ~OutOfBounds(Row, LabelCol)
            /\ ~IsStartRow(Row)
            /\ i' = i + 1
            /\ UNCHANGED <<outsideExtractor, grid, week, category, impl, pc, data_start, data_rows, origin, result>>

\* if data_start is None: return None
FindNone == /\ pc = "find" /\ i = len(grid)
            /\ result' = [status |-> "None", rows |-> <<>>]
            /\ pc' = "done"
            /\ UNCHANGED <<outsideExtractor, grid, week, category, impl, i, data_start, data_rows, origin>>

\* the label taken without .strip()
MarketOf_NoStrip(row) == str(iloc(row, LabelCol))

\* str(row.iloc[2]).strip()
MarketOf(row) == strip(str(iloc(row, LabelCol)))

\* the two nested tests of the extraction loop
IsMarketRow(row) == /\ notna(iloc(row, LabelCol)) /\ NotTotalt(iloc(row, LabelCol))
                    /\ MarketOf(row) # <<>> /\ MarketOf(row) # <<"n", "a", "n">>

\* row.iloc[c] if pd.notna(row.iloc[c]) else 0
CellOrZero(row, c) == IF notna(iloc(row, c)) THEN iloc(row, c) ELSE NumCell(0)

\* the dict appended for one market row
RowDict(row) == IF impl = "real"
                THEN [Market |-> MarketOf(row), vals |-> [f \in 1..8 |-> CellOrZero(row, ColOf(f))]]
                ELSE [Week |-> week, Category |-> category, Market |-> MarketOf(row), vals |-> [f \in 1..8 |-> CellOrZero(row, ColOf(f))]]

ExtractSkip == /\ pc = "extract" /\ i < len(grid)
               /\ ~IsMarketRow(Row)
               /\ i' = i + 1
               /\ UNCHANGED <<outsideExtractor, grid, week, category, impl, pc, data_start, data_rows, origin, result>>

ExtractRaise == /\ pc = "extract" /\ i < len(grid)
                /\ IsMarketRow(Row)
                /\ \E f \in 1..8 : OutOfBounds(Row, ColOf(f))
                /\ Raise
                /\ UNCHANGED <<outsideExtractor, grid, week, category, impl, i, data_start, data_rows, origin>>

\* the record put in front of the list instead of at its end
ExtractAppend_Prepend == /\ pc = "extract" /\ i < len(grid)
                         /\ IsMarketRow(Row)
                         /\ \A f \in 1..8 : ~OutOfBounds(Row, ColOf(f))
                         /\ data_rows' = <<RowDict(Row)>> \o data_rows
                         /\ origin' = <<i>> \o origin
                         /\ i' = i + 1
                         /\ UNCHANGED <<outsideExtractor, grid, week, category, impl, pc, data_start, result>>

ExtractAppend == /\ pc = "extract" /\ i < len(grid)
                 /\ IsMarketRow(Row)
                 /\ \A f \in 1..8 : ~OutOfBounds(Row, ColOf(f))
                 /\ data_rows' = Append(data_rows, RowDict(Row))
                 /\ origin' = Append(origin, i)
                 /\ i' = i + 1
                 /\ UNCHANGED <<outsideExtractor, grid, week, category, impl, pc, data_start, result>>

\* pd.to_numeric(df_parsed[col], errors='coerce').fillna(0) for every numeric column
ConvertRow(d) == [d EXCEPT !.vals = [f \in 1..8 |-> fillna0(to_numeric(d.vals[f]))]]

\* if data_rows: ... return df_parsed; the real-data copy builds the frame
\* from an empty list as well
ReturnFrame == /\ pc = "extract" /\ i = len(grid)
               /\ (data_rows # <<>> \/ impl = "real")
               /\ result' = [status |-> "frame", rows |-> [n \in 1..Len(data_rows) |-> ConvertRow(data_rows[n])]]
               /\ pc' = "done"
               /\ UNCHANGED <<outsideExtractor, grid, week, category, impl, i, data_start, data_rows, origin>>

\* return None after the loop collected nothing
ReturnNone == /\ pc = "extract" /\ i = len(grid)
              /\ data_rows = <<>> /\ impl # "real"
              /\ result' = [status |-> "None", rows |-> <<>>]
              /\ pc' = "done"
              /\ UNCHANGED <<outsideExtractor, grid, week, category, impl, i, data_start, data_rows, origin>>

Next == \/ FindRaise
        \/ FindMatch
        \/ FindNext
        \/ FindNone
        \/ ExtractSkip
        \/ ExtractRaise
        \/ ExtractAppend
        \/ ReturnFrame
        \/ ReturnNone

Spec == Init /\ [][Next]_vars

----------------------------------------------------------------------------
(* Properties of the extractor *)

\* the rows of the grid all have the label column / all eleven columns
HasLabelCol == \A r \in 1..Len(grid) : Len(grid[r]) > LabelCol

Wide == \A r \in 1..Len(grid) : Len(grid[r]) >= NumCols

\* row r (counted from 1) holds the sentinel text in its label cell
HoldsSentinel(r) == grid[r][LabelCol + 1].k # "nan" /\ Contains(TOTALT, str(grid[r][LabelCol + 1]))

\* row r carries a market label: a present cell, not the literal sentinel,
\* whose trimmed text is neither empty nor "nan"
ValidLabel(r) == LET c == grid[r][LabelCol + 1]
                 IN /\ c.k # "nan"
                    /\ c # StrCell(TOTALT)
                    /\ strip(str(c)) # <<>>
                    /\ strip(str(c)) # <<"n", "a", "n">>

\* the rows after row k that carry a market label, in grid order
ValidAfter(k) == SelectSeq([r \in 1..Len(grid) |-> r], LAMBDA r : r > k /\ ValidLabel(r))

\* C1: a grid (with a label column) in which no row holds the sentinel in
\* column 2 yields no records: the call returns without a record and
\* without an error.
C1_NoSentinelNoRecords == (pc = "done" /\ HasLabelCol /\ \A r \in 1..Len(grid) : ~HoldsSentinel(r))
                              => (result.status = "None" /\ result.rows = <<>>)

C1_Witness == /\ pc = "done" /\ Wide /\ Len(grid) >= 2
              /\ \A r \in 1..Len(grid) : ~HoldsSentinel(r)
              /\ \E r \in 1..Len(grid) : ValidLabel(r)
              /\ result.rows = <<>>

\* C2: when exactly one row holds the sentinel, its label being exactly
\* TOTALT, and n market rows follow it, the call returns exactly n records
\* and the j-th record carries the label and the numbers of the j-th of
\* these rows.
C2_OneSentinelNRecords == \A k \in 1..Len(grid) :
                              (/\ pc = "done" /\ Wide
                               /\ grid[k][LabelCol + 1] = StrCell(TOTALT)
                               /\ \A r \in 1..Len(grid) : HoldsSentinel(r) => r = k)
                              => /\ Len(result.rows) = Len(ValidAfter(k))
                                 /\ \A j \in 1..Len(ValidAfter(k)) :
                                        LET row == grid[ValidAfter(k)[j]]
                                        IN /\ result.rows[j].Market = strip(str(row[LabelCol + 1]))
                                           /\ \A f \in 1..8 : row[f + 3].k = "num" => result.rows[j].vals[f] = row[f + 3]

C2_Witness == /\ pc = "done" /\ Wide /\ Len(grid) = 3
              /\ grid[1][LabelCol + 1] = StrCell(TOTALT)
              /\ ValidLabel(2) /\ ValidLabel(3)
              /\ grid[2][LabelCol + 1] # grid[3][LabelCol + 1]
              /\ Len(result.rows) = 2

\* C3: every record comes from one row of its own, at or after the first
\* sentinel row, whose label cell is present and is not the literal
\* sentinel; the rows of the records are strictly increasing, so no row
\* gives two records and equal labels stay separate records.
C3_RecordPerRow == /\ Len(origin) = Len(data_rows)
                   /\ (result.status = "frame" => Len(result.rows) = Len(origin))
                   /\ \A j \in 1..Len(origin) :
                          LET c == grid[origin[j] + 1][LabelCol + 1]
                          IN /\ data_start # NoStart /\ origin[j] >= data_start
                             /\ \E r \in 1..(origin[j] + 1) : HoldsSentinel(r)
                             /\ c.k # "nan" /\ c # StrCell(TOTALT)
                             /\ data_rows[j].Market = strip(str(c))
                             /\ (result.status = "frame" => result.rows[j].Market = strip(str(c)))
                             /\ (j > 1 => origin[j - 1] < origin[j])

C3_Witness == /\ pc = "done" /\ result.status = "frame" /\ Len(grid) = 3
              /\ ValidLabel(1) /\ HoldsSentinel(2)
              /\ grid[2][LabelCol + 1] = grid[3][LabelCol + 1]
              /\ Len(result.rows) = 2
              /\ result.rows[1] # result.rows[2]

\* the rows (counted from 1) that gave a record so far
Emitted == {origin[j] + 1 : j \in 1..Len(origin)}

\* row r lies at or after the first row holding the sentinel
InDataSection(r) == \E q \in 1..r : HoldsSentinel(q)

\* C4: the market of every returned record is trimmed, non-empty and is
\* not the literal TOTALT.
C4_MarketNeverSentinel == \A j \in 1..Len(result.rows) :
                              /\ result.rows[j].Market = strip(result.rows[j].Market)
                              /\ result.rows[j].Market # <<>>
                              /\ result.rows[j].Market # TOTALT

\* C5: the exclusion test compares the untrimmed label: a row whose label
\* is the sentinel with blanks around it gives a record (whose market is
\* the trimmed text), a row whose label is exactly TOTALT gives none.
C5_ExclusionUntrimmed == (pc = "done" /\ Wide) =>
                             \A r \in 1..Len(grid) :
                                 LET c == grid[r][LabelCol + 1]
                                 IN /\ c = StrCell(TOTALT) => r \notin Emitted
                                    /\ (c.k = "str" /\ c.s # TOTALT /\ strip(c.s) = TOTALT)
                                           => \E j \in 1..Len(result.rows) : origin[j] + 1 = r /\ result.rows[j].Market = TOTALT

C5_Witness == /\ pc = "done" /\ result.status = "frame" /\ Len(grid) = 2
              /\ grid[1][LabelCol + 1] = StrCell(TOTALT)
              /\ grid[2][LabelCol + 1] = StrCell(<<" ">> \o TOTALT \o <<" ">>)
              /\ Len(result.rows) = 1

\* C6: in every returned record the f-th numeric field is read from column
\* f + 2 of the record's row: it is zero when that cell is empty and the
\* cell's number when the cell holds a number.
C6_EmptyCellZero == (pc = "done" /\ result.status = "frame") =>
                        \A j \in 1..Len(result.rows) : \A f \in 1..Len(NumericCols) :
                            LET cell == grid[origin[j] + 1][f + 3]
                            IN /\ cell.k = "nan" => result.rows[j].vals[f] = NumCell(0)
                               /\ cell.k = "num" => result.rows[j].vals[f] = cell

C6_Witness == /\ pc = "done" /\ result.status = "frame" /\ Len(result.rows) = 2
              /\ \E f \in 1..8 : /\ grid[origin[1] + 1][f + 3].k = "nan"
                                 /\ grid[origin[1] + 1][8 + 3].k = "num"
                                 /\ result.rows[1].vals[f] = NumCell(0)

\* a cell holding a text without any digit: not a number in any notation
NoNumber(c) == c.k = "str" /\ c.s # <<>> /\ \A p \in 1..Len(c.s) : \A d \in 1..10 : c.s[p] # Digits[d]

\* C7: a numeric cell holding a text that is no number gives zero in its
\* field; the row still gives a record, the fields read from number cells
\* keep their numbers, and the call ends without an error.
C7_UnparseableZero == (pc = "done" /\ Wide) =>
                          /\ result.status # "IndexError"
                          /\ \A r \in 1..Len(grid) : (ValidLabel(r) /\ InDataSection(r)) => r \in Emitted
                          /\ \A j \in 1..Len(result.rows) : \A f \in 1..8 :
                                 LET cell == grid[origin[j] + 1][f + 3]
                                 IN /\ NoNumber(cell) => result.rows[j].vals[f] = NumCell(0)
                                    /\ cell.k = "num" => result.rows[j].vals[f].v = cell.v

C7_Witness == /\ pc = "done" /\ result.status = "frame" /\ Len(result.rows) >= 1
              /\ \E f \in 1..8 : /\ NoNumber(grid[origin[1] + 1][f + 3])
                                 /\ result.rows[1].vals[f] = NumCell(0)

\* the label cell of row r is empty, blank, or reads "nan" once trimmed
Excluded(r) == LET c == grid[r][LabelCol + 1]
               IN c.k = "nan" \/ lstrip(str(c)) = <<>> \/ strip(str(c)) = <<"n", "a", "n">>

\* C8: a row whose label cell is empty, blank or reads "nan" once trimmed
\* never gives a record, and the records returned are exactly those of the
\* remaining rows of the data section.
C8_BlankOrNanExcluded == /\ \A r \in Emitted : ~Excluded(r)
                         /\ (pc = "done" /\ Wide) =>
                                /\ Len(result.rows) = Cardinality({r \in 1..Len(grid) : InDataSection(r) /\ ~Excluded(r) /\ grid[r][LabelCol + 1] # StrCell(TOTALT)})
                                /\ \A j \in 1..Len(result.rows) : result.rows[j].Market = strip(str(grid[origin[j] + 1][LabelCol + 1]))

C8_Witness == /\ pc = "done" /\ result.status = "frame" /\ Len(grid) = 3
              /\ HoldsSentinel(1)
              /\ grid[2][LabelCol + 1] \in {StrCell(<<" ", " ">>), StrCell(<<" ", "n", "a", "n">>)}
              /\ ValidLabel(3)
              /\ Emitted = {3}

\* C9: the data section starts at the first row whose label cell holds the
\* sentinel; a later sentinel row does not restart it, and the rows
\* scanned for records are all rows from that first row to the last one.
C9_FirstSentinelStarts == (pc = "extract" \/ (pc = "done" /\ data_start # NoStart)) =>
                              /\ HoldsSentinel(data_start + 1)
                              /\ \A q \in 1..data_start : ~HoldsSentinel(q)
                              /\ data_start <= i /\ i <= Len(grid)
                              /\ \A r \in (data_start + 1)..i : ValidLabel(r) => r \in Emitted
                              /\ (pc = "done" /\ result.status # "IndexError") => i = Len(grid)

C9_Witness == /\ pc = "done" /\ result.status = "frame" /\ Len(grid) = 3
              /\ data_start = 0
              /\ ValidLabel(2)
              /\ HoldsSentinel(3)
              /\ {1, 2} \subseteq Emitted \/ {2, 3} \subseteq Emitted

\* C10 as stated: no grid, however narrow, makes the call raise an error.
C10_NeverRaises == pc = "done" => result.status # "IndexError"

\* C10 amended: the call raises no error on a grid whose rows have all
\* eleven columns; it raises IndexError, returning no record, exactly when
\* a non-empty grid has no label column or a market row of the data section
\* has fewer than eleven columns.
C10_RaisesOnlyOnNarrow == pc = "done" =>
                              /\ result.status = "IndexError" <=>
                                     \/ Len(grid) > 0 /\ Len(grid[1]) <= LabelCol
                                     \/ HasLabelCol /\ \E r \in 1..Len(grid) : Len(grid[r]) < NumCols /\ ValidLabel(r) /\ InDataSection(r)
                              /\ result.status = "IndexError" => result.rows = <<>>
                              /\ Wide => result.status # "IndexError"

C10_Witness == /\ pc = "done" /\ result.status = "IndexError"
               /\ HasLabelCol /\ Len(grid) = 2
               /\ HoldsSentinel(1) /\ ValidLabel(2)

\* C19: the search matches by substring, the exclusion by equality: when
\* the label of the first sentinel row holds TOTALT without being exactly
\* TOTALT, that row gives the first record, its market being the trimmed
\* label; when the label is exactly TOTALT the row gives no record.
C19_SentinelRowEmitted == (pc = "done" /\ Wide) =>
                              \A r \in 1..Len(grid) :
                                  (HoldsSentinel(r) /\ \A q \in 1..(r - 1) : ~HoldsSentinel(q)) =>
                                      LET c == grid[r][LabelCol + 1]
                                      IN /\ c.s = TOTALT => (result.rows = <<>> \/ origin[1] + 1 > r)
                                         /\ c.s # TOTALT => /\ result.status = "frame"
                                                            /\ origin[1] + 1 = r
                                                            /\ result.rows[1].Market = strip(c.s)

C19_Witness == /\ pc = "done" /\ result.status = "frame" /\ Len(grid) = 3
               /\ ValidLabel(1)
               /\ grid[2][LabelCol + 1] = StrCell(TOTALT \o <<" ", "2">>)
               /\ ValidLabel(3)
               /\ result.rows[1].Market = TOTALT \o <<" ", "2">>
               /\ Len(result.rows) = 2

----------------------------------------------------------------------------
(* The three copies of the extractor as functions of the grid, each taken *)
(* from its own text                                                      *)

\* the value of a search that raised IndexError
RaisedAt == -2

IndexError == [status |-> "IndexError", rows |-> <<>>]

\* comprehensive_analysis.py: the search loop
RECURSIVE Comp_data_start(_, _)
Comp_data_start(d, n) == IF n >= len(d) THEN NoStart
                         ELSE IF OutOfBounds(d[n + 1], LabelCol) THEN RaisedAt
                         ELSE IF IsStartRow(d[n + 1]) THEN n
                         ELSE Comp_data_start(d, n + 1)

Comp_RowDict(row, week_num, cat) == [Week |-> week_num, Category |-> cat, Market |-> MarketOf(row), vals |-> [f \in 1..8 |-> CellOrZero(row, ColOf(f))]]

\* comprehensive_analysis.py: the extraction loop, acc being data_rows
RECURSIVE Comp_data_rows(_, _, _, _, _)
Comp_data_rows(d, n, acc, week_num, cat) ==
    IF n >= len(d) THEN [err |-> FALSE, rows |-> acc]
    ELSE IF ~IsMarketRow(d[n + 1]) THEN Comp_data_rows(d, n + 1, acc, week_num, cat)
    ELSE IF \E f \in 1..8 : OutOfBounds(d[n + 1], ColOf(f)) THEN [err |-> TRUE, rows |-> <<>>]
    ELSE Comp_data_rows(d, n + 1, Append(acc, Comp_RowDict(d[n + 1], week_num, cat)), week_num, cat)

\* ComprehensiveSeafoodAnalysis._parse_weekly_data(df, week_num, category)
Comp_parse_weekly_data(d, week_num, cat) ==
    LET start == Comp_data_start(d, 0)
    IN IF start = RaisedAt THEN IndexError
       ELSE IF start = NoStart THEN Unset
       ELSE LET ex == Comp_data_rows(d, start, <<>>, week_num, cat)
            IN IF ex.err THEN IndexError
               ELSE IF ex.rows = <<>> THEN Unset
               ELSE [status |-> "frame", rows |-> [n \in 1..Len(ex.rows) |-> ConvertRow(ex.rows[n])]]

\* databricks-notebook.py: the test of the search loop
Nb_IsStartRow(row) == notna(iloc(row, 2)) /\ Contains(TOTALT, str(iloc(row, 2)))

RECURSIVE Nb_data_start(_, _)
Nb_data_start(d, n) == IF n >= len(d) THEN NoStart
                       ELSE IF OutOfBounds(d[n + 1], 2) THEN RaisedAt
                       ELSE IF Nb_IsStartRow(d[n + 1]) THEN n
                       ELSE Nb_data_start(d, n + 1)

\* databricks-notebook.py: the two nested tests of the extraction loop
Nb_IsMarketRow(row) == /\ notna(iloc(row, 2)) /\ ~(iloc(row, 2).k = "str" /\ iloc(row, 2).s = TOTALT)
                       /\ strip(str(iloc(row, 2))) # <<>> /\ strip(str(iloc(row, 2))) # <<"n", "a", "n">>

Nb_RowDict(row, week_num, cat) == [Week |-> week_num, Category |-> cat, Market |-> strip(str(iloc(row, 2))), vals |-> [f \in 1..8 |-> IF notna(iloc(row, f + 2)) THEN iloc(row, f + 2) ELSE NumCell(0)]]

RECURSIVE Nb_data_rows(_, _, _, _, _)
Nb_data_rows(d, n, acc, week_num, cat) ==
    IF n >= len(d) THEN [err |-> FALSE, rows |-> acc]
    ELSE IF ~Nb_IsMarketRow(d[n + 1]) THEN Nb_data_rows(d, n + 1, acc, week_num, cat)
    ELSE IF OutOfBounds(d[n + 1], 10) THEN [err |-> TRUE, rows |-> <<>>]
    ELSE Nb_data_rows(d, n + 1, Append(acc, Nb_RowDict(d[n + 1], week_num, cat)), week_num, cat)

\* parse_weekly_data(df, week_num, category) of the notebook
Nb_parse_weekly_data(d, week_num, cat) ==
    LET start == Nb_data_start(d, 0)
    IN IF start = RaisedAt THEN IndexError
       ELSE IF start = NoStart THEN Unset
       ELSE LET ex == Nb_data_rows(d, start, <<>>, week_num, cat)
            IN IF ex.err THEN IndexError
               ELSE IF ex.rows = <<>> THEN Unset
               ELSE [status |-> "frame", rows |-> [n \in 1..Len(ex.rows) |-> [ex.rows[n] EXCEPT !.vals = [f \in 1..8 |-> fillna0(to_numeric(ex.rows[n].vals[f]))]]]]

\* real_data_analysis.py: the test of the search loop
Real_IsStartRow(row) == notna(iloc(row, 2)) /\ Contains(TOTALT, str(iloc(row, 2)))

RECURSIVE Real_data_start(_, _)
Real_data_start(d, n) == IF n >= len(d) THEN NoStart
                         ELSE IF OutOfBounds(d[n + 1], 2) THEN RaisedAt
                         ELSE IF Real_IsStartRow(d[n + 1]) THEN n
                         ELSE Real_data_start(d, n + 1)

\* the extraction accepting a label that reads "nan"
Real_IsMarketRow_KeepNan(row) == /\ notna(iloc(row, 2)) /\ ~(iloc(row, 2).k = "str" /\ iloc(row, 2).s = TOTALT)
                                 /\ strip(str(iloc(row, 2))) # <<>>

\* real_data_analysis.py: the two nested tests of the extraction loop
Real_IsMarketRow(row) == /\ notna(iloc(row, 2)) /\ ~(iloc(row, 2).k = "str" /\ iloc(row, 2).s = TOTALT)
                         /\ strip(str(iloc(row, 2))) # <<>> /\ strip(str(iloc(row, 2))) # <<"n", "a", "n">>

Real_RowDict(row) == [Market |-> strip(str(iloc(row, 2))), vals |-> [f \in 1..8 |-> IF notna(iloc(row, f + 2)) THEN iloc(row, f + 2) ELSE NumCell(0)]]

RECURSIVE Real_data_rows(_, _, _)
Real_data_rows(d, n, acc) ==
    IF n >= len(d) THEN [err |-> FALSE, rows |-> acc]
    ELSE IF ~Real_IsMarketRow(d[n + 1]) THEN Real_data_rows(d, n + 1, acc)
    ELSE IF OutOfBounds(d[n + 1], 10) THEN [err |-> TRUE, rows |-> <<>>]
    ELSE Real_data_rows(d, n + 1, Append(acc, Real_RowDict(d[n + 1])))

\* the stale value forgotten: cleaned_df reset when no data section is found
Real_parse_weekly_statistics_Reset(d, before) ==
    LET start == Real_data_start(d, 0)
    IN IF start = RaisedAt THEN [raised |-> TRUE, cleaned |-> before]
       ELSE IF start = NoStart THEN [raised |-> FALSE, cleaned |-> Unset]
       ELSE LET ex == Real_data_rows(d, start, <<>>)
            IN IF ex.err THEN [raised |-> TRUE, cleaned |-> before]
               ELSE [raised |-> FALSE, cleaned |-> [status |-> "frame", rows |-> [n \in 1..Len(ex.rows) |-> [ex.rows[n] EXCEPT !.vals = [f \in 1..8 |-> fillna0(to_numeric(ex.rows[n].vals[f]))]]]]]

\* RealSeafoodAnalysis._parse_weekly_statistics() on self.df = d, with
\* self.cleaned_df = before: the value of self.cleaned_df afterwards, and
\* whether the call raised
Real_parse_weekly_statistics(d, before) ==
    LET start == Real_data_start(d, 0)
    IN IF start = RaisedAt THEN [raised |-> TRUE, cleaned |-> before]
       ELSE IF start = NoStart THEN [raised |-> FALSE, cleaned |-> before]
       ELSE LET ex == Real_data_rows(d, start, <<>>)
            IN IF ex.err THEN [raised |-> TRUE, cleaned |-> before]
               ELSE [raised |-> FALSE, cleaned |-> [status |-> "frame", rows |-> [n \in 1..Len(ex.rows) |-> [ex.rows[n] EXCEPT !.vals = [f \in 1..8 |-> fillna0(to_numeric(ex.rows[n].vals[f]))]]]]]

----------------------------------------------------------------------------
(* A series of calls: the module-level copies are called with their       *)
(* arguments; the real-data copy is a method of one RealSeafoodAnalysis    *)
(* object, load_and_parse_data storing the grid in self.df before calling *)
(* _parse_weekly_statistics, which leaves its result in self.cleaned_df   *)

MaxCalls == 3

\* grids of the series: no sentinel row, a sentinel row with a market row,
\* a sentinel row alone, labels that need trimming or read "nan", and a
\* grid too narrow for a market row
CallGrids == {MkGrid(<<StrCell(USA)>>, 0, NumCols), MkGrid(<<StrCell(TOTALT), StrCell(USA)>>, 0, NumCols), MkGrid(<<StrCell(TOTALT)>>, 0, NumCols), MkGrid(<<StrCell(TOTALT \o <<" ", "2">>), StrCell(<<"n", "a", "n">>), StrCell(<<" ">> \o USA \o <<" ">>)>>, 2, NumCols), MkGrid(<<StrCell(TOTALT), StrCell(USA)>>, 0, 5)}

CallWeeks == {1, 36}

CallsInit == /\ ExtractorIdle
             /\ NoCalls
             /\ LoaderIdle
             /\ FetchIdle
             /\ RestIdle

CallComprehensive == /\ Len(calls) < MaxCalls
                     /\ \E g \in CallGrids, w \in CallWeeks, c \in Categories :
                            calls' = Append(calls, [copy |-> "comprehensive", grid |-> g, week |-> w, category |-> c, out |-> Comp_parse_weekly_data(g, w, c), left |-> cleaned_df])
                     /\ UNCHANGED <<outsideCalls, self_df, cleaned_df>>

CallNotebook == /\ Len(calls) < MaxCalls
                /\ \E g \in CallGrids, w \in CallWeeks, c \in Categories :
                       calls' = Append(calls, [copy |-> "notebook", grid |-> g, week |-> w, category |-> c, out |-> Nb_parse_weekly_data(g, w, c), left |-> cleaned_df])
                /\ UNCHANGED <<outsideCalls, self_df, cleaned_df>>

\* load_and_parse_data: self.df = pd.read_excel(...); self._parse_weekly_statistics()
CallReal == /\ Len(calls) < MaxCalls
            /\ \E g \in CallGrids :
                   LET r == Real_parse_weekly_statistics(g, cleaned_df)
                   IN /\ self_df' = g
                      /\ cleaned_df' = r.cleaned
                      /\ calls' = Append(calls, [copy |-> "real", grid |-> g, week |-> 0, category |-> "", out |-> IF r.raised THEN IndexError ELSE r.cleaned, left |-> r.cleaned])
            /\ UNCHANGED outsideCalls

CallsNext == \/ CallComprehensive
             \/ CallNotebook
             \/ CallReal

CallsSpec == CallsInit /\ [][CallsNext]_vars

\* the two calls were given the same copy and the same arguments
SameCall(a, b) == /\ calls[a].copy = calls[b].copy /\ calls[a].grid = calls[b].grid
                  /\ calls[a].week = calls[b].week /\ calls[a].category = calls[b].category

\* the grid has a label column and no row of it holds the sentinel
NoSection(g) == \A r \in 1..Len(g) : /\ Len(g[r]) > 2
                                     /\ ~(g[r][3].k # "nan" /\ Contains(TOTALT, str(g[r][3])))

\* the value self.cleaned_df had when call k began
LeftBefore(k) == IF k = 1 THEN Unset ELSE calls[k - 1].left

Recs(out) == [n \in 1..Len(out.rows) |-> <<out.rows[n].Market, out.rows[n].vals>>]

\* call k runs on a fresh object: no load of the real-data object before it
FirstLoad(k) == calls[k].copy = "real" => \A e \in 1..(k - 1) : calls[e].copy # "real"

\* C14: on the same grid the three copies give the same sequence of
\* (market, eight numbers), the same error if any, and no record at all
\* when the grid has no sentinel row or no accepted row (the real-data copy
\* taken on a fresh object).
C14_CopiesAgree == \A a \in 1..Len(calls) : \A b \in 1..Len(calls) :
                       (calls[a].grid = calls[b].grid /\ FirstLoad(a) /\ FirstLoad(b)) =>
                           /\ Recs(calls[a].out) = Recs(calls[b].out)
                           /\ (calls[a].out.status = "IndexError") = (calls[b].out.status = "IndexError")
                           /\ NoSection(calls[a].grid) => calls[a].out.rows = <<>>

C14_Witness == /\ Len(calls) = 3
               /\ {calls[1].copy, calls[2].copy, calls[3].copy} = {"comprehensive", "notebook", "real"}
               /\ calls[1].grid = calls[2].grid /\ calls[2].grid = calls[3].grid
               /\ Len(calls[1].grid) = 3
               /\ Len(calls[3].out.rows) = 2

----------------------------------------------------------------------------
(* The loaders: process_seafood_data of the notebook, load_all_data with  *)
(* _load_category_data and _combine_all_data of the comprehensive         *)
(* analysis, load_and_parse_data of the real-data analysis.  A file name  *)
(* is a sequence of tokens: words, "-", digits and the suffix.            *)

MaxFiles == 2

LaksSlug == <<"laks", "-", "og", "-", "orret">>

HvitSlug == <<"hvitfiskprodukter">>

SildSlug == <<"sild", "-", "og", "-", "makrell">>

KonvSlug == <<"konvensjonelle", "-", "produkter">>

\* the slugs in the order of the regular expression and of the elif chain
Slugs == <<LaksSlug, HvitSlug, SildSlug, KonvSlug>>

\* the keys of the categories dict of load_all_data, in its order
CategoryKeys == <<<<"laks", "_", "og", "_", "orret">>, <<"hvitfiskprodukter">>, <<"sild", "_", "og", "_", "makrell">>, <<"konvensjonelle", "_", "produkter">>>>

\* s.replace('-', '_')
replace_hyphen(s) == [p \in 1..Len(s) |-> IF s[p] = "-" THEN "_" ELSE s[p]]

\* s.lower(), token by token
lower(s) == [p \in 1..Len(s) |-> CASE s[p] = "UKE" -> "uke" [] s[p] = "Laks" -> "laks" [] OTHER -> s[p]]

IsDigit(t) == \E d \in 1..10 : Digits[d] = t

\* the longest run of digits of s that starts at position p
RECURSIVE DigitRun(_, _)
DigitRun(s, p) == IF p <= Len(s) /\ IsDigit(s[p]) THEN <<s[p]>> \o DigitRun(s, p + 1) ELSE <<>>

\* re.search(r'uke-(\d+)', s): group 1 of the leftmost match, <<>> for no match
week_match(s) == LET at == {p \in 1..(Len(s) - 2) : s[p] = "uke" /\ s[p + 1] = "-" /\ IsDigit(s[p + 2])}
                 IN IF at = {} THEN <<>>
                    ELSE DigitRun(s, (CHOOSE p \in at : \A q \in at : p <= q) + 2)

\* re.search(r'(laks-og-orret|...)', s): the leftmost match, <<>> for none
category_match(s) == LET hit(p) == {n \in 1..Len(Slugs) : p + Len(Slugs[n]) - 1 <= Len(s) /\ SubSeq(s, p, p + Len(Slugs[n]) - 1) = Slugs[n]}
                         at == {p \in 1..Len(s) : hit(p) # {}}
                     IN IF at = {} THEN <<>>
                        ELSE LET p == CHOOSE q \in at : \A r \in at : q <= r
                             IN Slugs[CHOOSE n \in hit(p) : \A o \in hit(p) : n <= o]

\* the elif chain of load_all_data on file.name.lower(): the key of the
\* first slug the name contains, <<>> when it contains none
category_key(s) == LET found == {n \in 1..Len(Slugs) : Contains(Slugs[n], lower(s))}
                   IN IF found = {} THEN <<>>
                      ELSE CategoryKeys[CHOOSE n \in found : \A o \in found : n <= o]

Xlsx == ".xlsx"

NameLaks36 == <<"uke", "-", "3", "6", "-">> \o LaksSlug \o <<Xlsx>>

NameSild07 == <<"uke", "-", "0", "7", "-">> \o SildSlug \o <<Xlsx>>

NameLaks99 == <<"uke", "-", "9", "9", "-">> \o LaksSlug \o <<Xlsx>>

NameNoWeek == LaksSlug \o <<"-", "2", "0", "2", "5", Xlsx>>

NameNoCategory == <<"uke", "-", "3", "6", "-", "torsk", Xlsx>>

NameUpper == <<"uke", "-", "3", "6", "-", "Laks", "-", "og", "-", "orret", Xlsx>>

\* the names in the order sorted() puts them
SortedNames == <<NameNoWeek, NameSild07, NameUpper, NameLaks36, NameNoCategory, NameLaks99>>

MarketRow(label, cells) == <<NaN, NaN, label>> \o cells

Blank8 == [f \in 1..8 |-> NaN]

Kina == <<"K", "i", "n", "a">>

\* a sheet with two markets, one of them without prior-year figures
SheetA == <<MarketRow(StrCell(TOTALT), Blank8), MarketRow(StrCell(USA), <<NumCell(100), NumCell(50), NumCell(80), NumCell(40), NumCell(500), NumCell(49), NumCell(400), NumCell(47)>>), MarketRow(StrCell(<<" ">> \o Kina), <<NumCell(30), StrCell(<<"2", "0">>), NaN, StrCell(<<"-">>), NumCell(60), NumCell(10), NumCell(0), NaN>>)>>

\* a sheet whose only market has no prior-year figures
SheetZ == <<MarketRow(StrCell(TOTALT), Blank8), MarketRow(StrCell(USA), <<NumCell(100), NumCell(10), NumCell(0), NumCell(0), NumCell(100), NumCell(10), NumCell(0), NumCell(0)>>)>>

\* a sheet without a sentinel row
SheetNone == <<MarketRow(StrCell(USA), <<NumCell(1), NumCell(2), NumCell(3), NumCell(4), NumCell(5), NumCell(6), NumCell(7), NumCell(8)>>)>>

\* a sheet too narrow for a market row
SheetNarrow == MkGrid(<<StrCell(TOTALT), StrCell(USA)>>, 0, 5)

\* a sheet with a sentinel row and no market row
SheetOnlyTotalt == <<MarketRow(StrCell(TOTALT), Blank8)>>

\* what is behind a link or a path: the request may fail, the workbook may
\* be unreadable, or pd.read_excel gives the sheet
Bodies == {[fetch |-> "ok", readable |-> TRUE, sheet |-> SheetA], [fetch |-> "ok", readable |-> TRUE, sheet |-> SheetZ], [fetch |-> "ok", readable |-> TRUE, sheet |-> SheetNone], [fetch |-> "ok", readable |-> TRUE, sheet |-> SheetOnlyTotalt], [fetch |-> "ok", readable |-> TRUE, sheet |-> SheetNarrow], [fetch |-> "ok", readable |-> FALSE, sheet |-> <<>>], [fetch |-> "timeout", readable |-> FALSE, sheet |-> <<>>]}

\* a name that lacks a pattern is never opened: its workbook does not matter
Files == {f \in [name : {SortedNames[n] : n \in 1..Len(SortedNames)}, body : Bodies] :
              f.name \in {NameNoWeek, NameNoCategory} => (f.body.sheet = SheetA \/ f.body.fetch = "timeout")}

FileSeqs == UNION {[1..n -> Files] : n \in 0..MaxFiles}

\* sorted(files): by name
RECURSIVE sorted(_)
sorted(fs) == IF fs = {} THEN <<>>
              ELSE LET rank(f) == CHOOSE n \in 1..Len(SortedNames) : SortedNames[n] = f.name
                       first == CHOOSE f \in fs : \A g \in fs : rank(f) <= rank(g)
                   IN <<first>> \o sorted(fs \ {first})

\* load_all_data: the files of each category in turn, each list sorted
GroupedByCategory(fs) == LET of(n) == {fs[p] : p \in {q \in 1..Len(fs) : category_key(fs[q].name) = CategoryKeys[n]}}
                             entry(n) == [p \in 1..Cardinality(of(n)) |-> [file |-> sorted(of(n))[p], category |-> CategoryKeys[n]]]
                         IN entry(1) \o entry(2) \o entry(3) \o entry(4)

Loaders == {"notebook", "comprehensive", "real"}

LoaderInit == /\ ExtractorIdle
              /\ NoCalls
              /\ FetchIdle
              /\ RestIdle
              /\ loader \in Loaders
              /\ excel_files \in FileSeqs
              /\ loader = "comprehensive" =>
                     /\ \A p \in 1..Len(excel_files) : excel_files[p].body.fetch = "ok"
                     /\ \A p \in 1..Len(excel_files) : \A q \in 1..Len(excel_files) : excel_files[p].name = excel_files[q].name => p = q
              /\ loader = "real" =>
                     /\ Len(excel_files) = 1
                     /\ excel_files[1].name = NameLaks36
                     /\ excel_files[1].body.fetch = "ok"
              /\ queue = IF loader = "comprehensive" THEN GroupedByCategory(excel_files)
                         ELSE [p \in 1..Len(excel_files) |-> [file |-> excel_files[p], category |-> <<>>]]
              /\ next_file = 0
              /\ all_data = <<>>
              /\ caught = <<>>
              /\ escaped = FALSE
              /\ combined_df = Unset
              /\ lpc = "load"
              /\ report = <<>>

\* the file of the current iteration
File == queue[next_file + 1].file

\* the pattern uke-(\d): one digit only
WeekNum_FirstDigit == DigitVal(week_match(File.name)[1])

\* week_num = int(week_match.group(1))
WeekNum == ParseDigits(week_match(File.name))

\* the category handed to the extractor
CategoryArg == IF loader = "notebook" THEN replace_hyphen(category_match(File.name))
               ELSE queue[next_file + 1].category

\* if week_match and category_match: / if week_match:
NameMatches == /\ week_match(File.name) # <<>>
               /\ loader = "notebook" => category_match(File.name) # <<>>

\* parsed_data of the current iteration
Parsed == IF loader = "notebook" THEN Nb_parse_weekly_data(File.body.sheet, WeekNum, CategoryArg)
          ELSE Comp_parse_weekly_data(File.body.sheet, WeekNum, CategoryArg)

InLoop == lpc = "load" /\ loader \in {"notebook", "comprehensive"} /\ next_file < Len(queue)

\* the handler leaving the loop instead of continuing
Caught_Break(what) == /\ caught' = Append(caught, [at |-> next_file, what |-> what])
                      /\ next_file' = Len(queue)
                      /\ UNCHANGED <<outsideLoader, loader, excel_files, queue, all_data, escaped, combined_df, lpc, report>>

\* except Exception as e: print(...); continue
Caught(what) == /\ caught' = Append(caught, [at |-> next_file, what |-> what])
                /\ next_file' = next_file + 1
                /\ UNCHANGED <<outsideLoader, loader, excel_files, queue, all_data, escaped, combined_df, lpc, report>>

\* requests.get(url, timeout=60) or raise_for_status() raises
DownloadFails == /\ InLoop /\ loader = "notebook"
                 /\ File.body.fetch # "ok"
                 /\ Caught("download")

\* the name lacks a pattern: the iteration does nothing
NameSkipped == /\ InLoop
               /\ File.body.fetch = "ok"
               /\ ~NameMatches
               /\ next_file' = next_file + 1
               /\ UNCHANGED <<outsideLoader, loader, excel_files, queue, all_data, caught, escaped, combined_df, lpc, report>>

\* pd.read_excel raises
ReadFails == /\ InLoop
             /\ File.body.fetch = "ok" /\ NameMatches
             /\ ~File.body.readable
             /\ Caught("read")

\* the extractor raises
ParseRaises == /\ InLoop
               /\ File.body.fetch = "ok" /\ NameMatches /\ File.body.readable
               /\ Parsed.status = "IndexError"
               /\ Caught("parse")

\* parsed_data is None
ParsedNothing == /\ InLoop
                 /\ File.body.fetch = "ok" /\ NameMatches /\ File.body.readable
                 /\ Parsed.status = "None"
                 /\ next_file' = next_file + 1
                 /\ UNCHANGED <<outsideLoader, loader, excel_files, queue, all_data, caught, escaped, combined_df, lpc, report>>

\* only the frame of the last file kept
AppendParsed_KeepLast == /\ InLoop
                         /\ File.body.fetch = "ok" /\ NameMatches /\ File.body.readable
                         /\ Parsed.status = "frame"
                         /\ all_data' = <<Parsed.rows>>
                         /\ next_file' = next_file + 1
                         /\ UNCHANGED <<outsideLoader, loader, excel_files, queue, caught, escaped, combined_df, lpc, report>>

\* all_data.append(parsed_data) / category_data.append(parsed_data)
AppendParsed == /\ InLoop
                /\ File.body.fetch = "ok" /\ NameMatches /\ File.body.readable
                /\ Parsed.status = "frame"
                /\ all_data' = Append(all_data, Parsed.rows)
                /\ next_file' = next_file + 1
                /\ UNCHANGED <<outsideLoader, loader, excel_files, queue, caught, escaped, combined_df, lpc, report>>

\* pd.concat(frames, ignore_index=True)
RECURSIVE concat(_)
concat(frames) == IF frames = <<>> THEN <<>> ELSE Head(frames) \o concat(Tail(frames))

----------------------------------------------------------------------------
(* Arithmetic of the aggregation: a float is an exact fraction n/d with   *)
(* d > 0, or one of the values a division by zero gives in numpy          *)

Ratio(n, d) == IF d > 0 THEN [kind |-> "num", n |-> n, d |-> d] ELSE [kind |-> "num", n |-> 0 - n, d |-> 0 - d]

Zero == [kind |-> "num", n |-> 0, d |-> 1]

Inf == [kind |-> "inf", n |-> 0, d |-> 1]

NegInf == [kind |-> "-inf", n |-> 0, d |-> 1]

NaNf == [kind |-> "nan", n |-> 0, d |-> 1]

\* (cur - prior) / prior * 100 on numpy numbers: a zero divisor gives an
\* infinity or nan, not an exception
pct(cur, prior) == IF prior # 0 THEN Ratio((cur - prior) * 100, prior)
                   ELSE IF cur - prior > 0 THEN Inf
                   ELSE IF cur - prior < 0 THEN NegInf
                   ELSE NaNf

\* (...) if prior > 0 else 0
guarded_pct(cur, prior) == IF prior > 0 THEN pct(cur, prior) ELSE Zero

\* n/d rounded to an integer, halves to the even neighbour
RoundHalfEven(n, d) == LET q == n \div d
                           r == n - q * d
                       IN IF 2 * r < d THEN q
                          ELSE IF 2 * r > d THEN q + 1
                          ELSE IF q % 2 = 0 THEN q ELSE q + 1

\* x.round(2)
round2(x) == IF x.kind # "num" THEN x ELSE [kind |-> "num", n |-> RoundHalfEven(x.n * 100, x.d), d |-> 100]

\* df[column f].sum()
RECURSIVE col_sum(_, _)
col_sum(rows, f) == IF rows = <<>> THEN 0 ELSE Head(rows).vals[f].v + col_sum(Tail(rows), f)

\* groupby('Week'): the rows of one group, and the keys of the groups
WeekRows(rows, w) == SelectSeq(rows, LAMBDA rec : rec.Week = w)

WeekKeys(rows) == {rows[n].Week : n \in 1..Len(rows)}

\* groupby('Category'): the rows of one group, and the keys of the groups
CategoryRows(rows, c) == SelectSeq(rows, LAMBDA rec : rec.Category = c)

CategoryKeysOf(rows) == {rows[n].Category : n \in 1..Len(rows)}

\* process_seafood_data: the two derived columns of a record
WithGrowth(rec) == [Week |-> rec.Week, Category |-> rec.Category, Market |-> rec.Market, vals |-> rec.vals, Volume_Growth_Percent |-> round2(pct(rec.vals[1].v, rec.vals[3].v)), Price_Change_Percent |-> round2(pct(rec.vals[2].v, rec.vals[4].v))]

\* the loop of a loader is over
LoopDone == lpc = "load" /\ loader \in {"notebook", "comprehensive"} /\ next_file = Len(queue)

\* the notebook was given no link: process_seafood_data is not called and
\* processed_data is never assigned
NbNoLinks == /\ LoopDone /\ loader = "notebook" /\ excel_files = <<>>
             /\ combined_df' = [status |-> "undefined", rows |-> <<>>]
             /\ lpc' = "analyze"
             /\ UNCHANGED <<outsideLoader, loader, excel_files, queue, next_file, all_data, caught, escaped, report>>

\* process_seafood_data after its loop: the combined table with its derived
\* columns, or an empty table
NbCombine == /\ LoopDone /\ loader = "notebook" /\ excel_files # <<>>
             /\ combined_df' = [status |-> "frame", rows |-> [n \in 1..Len(concat(all_data)) |-> WithGrowth(concat(all_data)[n])]]
             /\ lpc' = "analyze"
             /\ UNCHANGED <<outsideLoader, loader, excel_files, queue, next_file, all_data, caught, escaped, report>>

\* _combine_all_data, and the test of run_comprehensive_analysis
CompCombine == /\ LoopDone /\ loader = "comprehensive"
               /\ combined_df' = IF all_data # <<>> THEN [status |-> "frame", rows |-> concat(all_data)] ELSE Unset
               /\ lpc' = IF all_data # <<>> THEN "analyze" ELSE "done"
               /\ UNCHANGED <<outsideLoader, loader, excel_files, queue, next_file, all_data, caught, escaped, report>>

\* load_and_parse_data raises: nothing catches it
RealLoadRaises == /\ lpc = "load" /\ loader = "real"
                  /\ (~File.body.readable \/ Real_parse_weekly_statistics(File.body.sheet, Unset).raised)
                  /\ escaped' = TRUE
                  /\ lpc' = "done"
                  /\ UNCHANGED <<outsideLoader, loader, excel_files, queue, next_file, all_data, caught, combined_df, report>>

\* load_and_parse_data, and the test of run_complete_analysis
RealLoad == /\ lpc = "load" /\ loader = "real"
            /\ File.body.readable
            /\ LET r == Real_parse_weekly_statistics(File.body.sheet, Unset)
               IN /\ ~r.raised
                  /\ combined_df' = r.cleaned
                  /\ lpc' = IF r.cleaned.status = "frame" THEN "analyze" ELSE "done"
            /\ next_file' = next_file + 1
            /\ UNCHANGED <<outsideLoader, loader, excel_files, queue, all_data, caught, escaped, report>>

\* the overall growth figures of an insights step, computed with the
\* test of the prior value or without it
growth(guarded, cur, prior) == IF guarded THEN guarded_pct(cur, prior) ELSE pct(cur, prior)

Overall(rows, guarded) == [volume_growth |-> growth(guarded, col_sum(rows, 1), col_sum(rows, 3)), price_change |-> growth(guarded, col_sum(rows, 2), col_sum(rows, 4)), total_volume |-> col_sum(rows, 1), total_previous_volume |-> col_sum(rows, 3), price_sum |-> col_sum(rows, 2), previous_price_sum |-> col_sum(rows, 4)]

\* the data-quality and insights cells find processed_data undefined
NbInsightsRaises == /\ lpc = "analyze" /\ loader = "notebook"
                    /\ combined_df.status = "undefined"
                    /\ escaped' = TRUE
                    /\ lpc' = "done"
                    /\ UNCHANGED <<outsideLoader, loader, excel_files, queue, next_file, all_data, caught, combined_df, report>>

\* the insights cell: if not processed_data.empty: ...
NbInsights == /\ lpc = "analyze" /\ loader = "notebook"
              /\ combined_df.status = "frame"
              /\ report' = IF combined_df.rows = <<>> THEN <<>>
                           ELSE <<[step |-> "insights", overall |-> Overall(combined_df.rows, TRUE)]>>
              /\ lpc' = "done"
              /\ UNCHANGED <<outsideLoader, loader, excel_files, queue, next_file, all_data, caught, escaped, combined_df>>

\* analyze_trends: the weekly totals with their growth column, and the
\* volume of every category
CompAnalyzeTrends == /\ lpc = "analyze" /\ loader = "comprehensive"
                     /\ report' = <<[step |-> "trends",
                                     weekly_totals |-> [w \in WeekKeys(combined_df.rows) |->
                                         LET g == WeekRows(combined_df.rows, w)
                                         IN [Current_Week_Volume |-> col_sum(g, 1), Previous_Year_Volume |-> col_sum(g, 3), Volume_Growth |-> round2(pct(col_sum(g, 1), col_sum(g, 3)))]],
                                     category_analysis |-> [c \in CategoryKeysOf(combined_df.rows) |-> col_sum(CategoryRows(combined_df.rows, c), 1)]]>>
                     /\ lpc' = "insights"
                     /\ UNCHANGED <<outsideLoader, loader, excel_files, queue, next_file, all_data, caught, escaped, combined_df>>

\* generate_comprehensive_insights
CompInsights == /\ lpc = "insights" /\ loader = "comprehensive"
                /\ report' = Append(report, [step |-> "insights", overall |-> Overall(combined_df.rows, TRUE)])
                /\ lpc' = "done"
                /\ UNCHANGED <<outsideLoader, loader, excel_files, queue, next_file, all_data, caught, escaped, combined_df>>

\* the frame built from an empty list has no columns: the first column
\* read by analyze_weekly_data raises KeyError
RealAnalyzeRaises == /\ lpc = "analyze" /\ loader = "real"
                     /\ combined_df.rows = <<>>
                     /\ escaped' = TRUE
                     /\ lpc' = "done"
                     /\ UNCHANGED <<outsideLoader, loader, excel_files, queue, next_file, all_data, caught, combined_df, report>>

\* analyze_weekly_data and analyze_market_performance: the guarded overall
\* changes, then the growth column of every market
RealAnalyze == /\ lpc = "analyze" /\ loader = "real"
               /\ combined_df.rows # <<>>
               /\ report' = <<[step |-> "weekly", overall |-> Overall(combined_df.rows, TRUE)],
                              [step |-> "markets", Volume_Growth |-> [n \in 1..Len(combined_df.rows) |-> round2(pct(combined_df.rows[n].vals[1].v, combined_df.rows[n].vals[3].v))]]>>
               /\ lpc' = "insights"
               /\ UNCHANGED <<outsideLoader, loader, excel_files, queue, next_file, all_data, caught, escaped, combined_df>>

\* generate_insights: the changes computed inside the print statements
RealInsights == /\ lpc = "insights" /\ loader = "real"
                /\ report' = Append(report, [step |-> "insights", overall |-> Overall(combined_df.rows, FALSE)])
                /\ lpc' = "done"
                /\ UNCHANGED <<outsideLoader, loader, excel_files, queue, next_file, all_data, caught, escaped, combined_df>>

LoaderNext == \/ DownloadFails
              \/ NameSkipped
              \/ ReadFails
              \/ ParseRaises
              \/ ParsedNothing
              \/ AppendParsed
              \/ NbNoLinks
              \/ NbCombine
              \/ CompCombine
              \/ RealLoadRaises
              \/ RealLoad
              \/ NbInsightsRaises
              \/ NbInsights
              \/ CompAnalyzeTrends
              \/ CompInsights
              \/ RealAnalyzeRaises
              \/ RealAnalyze
              \/ RealInsights

LoaderSpec == LoaderInit /\ [][LoaderNext]_vars

----------------------------------------------------------------------------
(* Properties of the loaders *)

InLoaders == loader \in {"notebook", "comprehensive"}

\* the name holds uke-<digits>; the digits of its leftmost occurrence
HasWeekPattern(name) == \E p \in 1..(Len(name) - 2) : name[p] = "uke" /\ name[p + 1] = "-" /\ IsDigit(name[p + 2])

\* the name holds slug n, whatever its case for the comprehensive loader
HasSlug(name, n) == IF loader = "comprehensive" THEN Contains(Slugs[n], lower(name)) ELSE Contains(Slugs[n], name)

\* the number written by two digits
TwoDigits(a, b) == 10 * DigitVal(a) + DigitVal(b)

\* C11: a frame is added for a file only when its name holds uke-<digits>
\* and one of the four slugs; every record of the frame carries the number
\* written by those digits as Week and the key of a slug of the name (the
\* slug with underscores for hyphens) as Category; a file whose name lacks
\* a pattern adds nothing.
C11_TagsFromFileName == [][(InLoaders /\ lpc = "load" /\ all_data' # all_data) =>
                              LET name == queue[next_file + 1].file.name
                                  frame == all_data'[Len(all_data')]
                              IN /\ all_data' = Append(all_data, frame)
                                 /\ HasWeekPattern(name)
                                 /\ \E n \in 1..4 : HasSlug(name, n)
                                 /\ \A r \in 1..Len(frame) :
                                        /\ \E p \in 1..(Len(name) - 3) : name[p] = "uke" /\ name[p + 1] = "-" /\ frame[r].Week = TwoDigits(name[p + 2], name[p + 3])
                                        /\ \E n \in 1..4 : HasSlug(name, n) /\ frame[r].Category = CategoryKeys[n]]_vars

C11_Witness == /\ InLoaders /\ lpc = "load" /\ Len(queue) = 2 /\ next_file = 2
               /\ queue[1].file.name = NameSild07 /\ queue[2].file.name = NameNoWeek
               /\ queue[2].file.body.sheet = SheetA
               /\ Len(all_data) = 1
               /\ all_data[1][1].Week = 7
               /\ all_data[1][1].Category = CategoryKeys[3]

\* C12: the Week of every record of the combined table lies in 1..53.
C12_WeekInRange == (InLoaders /\ combined_df.status = "frame") =>
                       \A n \in 1..Len(combined_df.rows) : combined_df.rows[n].Week \in 1..53

\* the name of entry p of the queue holds both patterns
Matches(p) == LET name == queue[p].file.name
              IN HasWeekPattern(name) /\ \E n \in 1..4 : HasSlug(name, n)

\* what the extractor gives for the sheet of entry p
SheetOut(p) == Comp_parse_weekly_data(queue[p].file.body.sheet, 0, <<>>)

\* entry p of the queue fails: the request, the workbook or the extractor
Fails(p) == LET b == queue[p].file.body
            IN \/ b.fetch # "ok"
               \/ Matches(p) /\ ~b.readable
               \/ Matches(p) /\ b.readable /\ SheetOut(p).status = "IndexError"

\* the (market, numbers) entry p contributes
Contribution(p) == IF Matches(p) /\ ~Fails(p) /\ SheetOut(p).status = "frame" THEN Recs(SheetOut(p)) ELSE <<>>

\* the contributions of the entries 1..p, in processing order
RECURSIVE RecsUpTo(_)
RecsUpTo(p) == IF p = 0 THEN <<>> ELSE RecsUpTo(p - 1) \o Contribution(p)

\* C18: a file whose download, reading or parsing fails is caught and
\* logged, nothing escapes the loop, the file adds no record, and the
\* records of all other files are there, unchanged and in processing
\* order.
C18_FailuresContained == InLoaders =>
                             /\ lpc = "load" =>
                                    /\ ~escaped
                                    /\ Recs([rows |-> concat(all_data)]) = RecsUpTo(next_file)
                                    /\ {caught[j].at + 1 : j \in 1..Len(caught)} = {p \in 1..next_file : Fails(p)}
                                    /\ Len(caught) = Cardinality({p \in 1..next_file : Fails(p)})
                             /\ combined_df.status = "frame" =>
                                    /\ Recs(combined_df) = RecsUpTo(Len(queue))
                                    /\ Len(caught) = Cardinality({p \in 1..Len(queue) : Fails(p)})

C18_Witness == /\ loader = "notebook" /\ combined_df.status = "frame"
               /\ Len(queue) = 2
               /\ queue[1].file.body.fetch = "timeout"
               /\ queue[2].file.body.sheet = SheetA /\ Matches(2)
               /\ Len(caught) = 1 /\ caught[1].at = 0
               /\ Len(combined_df.rows) = 2

\* the category key of entry p: the key of the slug its name holds
KeyOf(p) == CategoryKeys[CHOOSE n \in 1..4 : HasSlug(queue[p].file.name, n)]

\* the current-week volume of the records of a table that carry category c
CategoryTotal(rows, c) == col_sum(SelectSeq(rows, LAMBDA rec : rec.Category = c), 1)

\* the current-week volume entry p contributes, computed from its own file
FileTotal(p) == col_sum([n \in 1..Len(Contribution(p)) |-> [vals |-> Contribution(p)[n][2]]], 1)

\* the sum of the totals of the entries 1..p that carry category c
RECURSIVE FileTotals(_, _)
FileTotals(p, c) == IF p = 0 THEN 0
                    ELSE FileTotals(p - 1, c) + (IF Matches(p) /\ KeyOf(p) = c THEN FileTotal(p) ELSE 0)

\* the orders in which n frames can be processed
Orders(n) == {f \in [1..n -> 1..n] : \A a \in 1..n : \A b \in 1..n : f[a] = f[b] => a = b}

\* C15: the combined table holds the records of every parsed file, and the
\* total of a category is the sum of the totals computed from each of its
\* files alone, whatever the order in which the frames are processed.
C15_TotalsAreSumsOfFileTotals == (InLoaders /\ combined_df.status = "frame") =>
                                     /\ Len(combined_df.rows) = Len(RecsUpTo(Len(queue)))
                                     /\ \A n \in 1..4 :
                                            /\ CategoryTotal(combined_df.rows, CategoryKeys[n]) = FileTotals(Len(queue), CategoryKeys[n])
                                            /\ \A f \in Orders(Len(all_data)) :
                                                   CategoryTotal(concat([a \in 1..Len(all_data) |-> all_data[f[a]]]), CategoryKeys[n]) = FileTotals(Len(queue), CategoryKeys[n])
                                     /\ (Len(report) >= 1 /\ report[1].step = "trends") =>
                                            \A c \in DOMAIN report[1].category_analysis :
                                                \E n \in 1..4 : c = CategoryKeys[n] /\ report[1].category_analysis[c] = FileTotals(Len(queue), c)

C15_Witness == /\ loader = "comprehensive" /\ Len(report) >= 1 /\ report[1].step = "trends"
               /\ Len(all_data) = 2
               /\ all_data[1][1].Category = all_data[2][1].Category
               /\ all_data[1] # all_data[2]
               /\ report[1].category_analysis[CategoryKeys[1]] = 230

\* the figure the statement gives: zero for a zero prior value, else the
\* percentage of the change
AsStated(x, cur, prior) == /\ x.kind = "num"
                           /\ prior = 0 => x.n = 0
                           /\ prior # 0 => x.n * prior = (cur - prior) * 100 * x.d

\* C16: every overall growth percentage is (current - prior) / prior * 100,
\* and zero when the prior value is zero.
C16_OverallGrowthGuarded == \A j \in 1..Len(report) :
                                report[j].step \in {"insights", "weekly"} =>
                                    LET o == report[j].overall
                                    IN /\ AsStated(o.volume_growth, o.total_volume, o.total_previous_volume)
                                       /\ AsStated(o.price_change, o.price_sum, o.previous_price_sum)

\* the rounded figure the statement gives
AsStatedRounded(x, cur, prior) == /\ x.kind = "num"
                                  /\ prior = 0 => x.n = 0
                                  /\ prior # 0 => x = round2(Ratio((cur - prior) * 100, prior))

\* C17: every derived growth column, per record and per group, is the
\* rounded percentage of the change, and zero when the prior value is zero.
C17_DerivedColumnsGuarded == /\ (loader = "notebook" /\ combined_df.status = "frame") =>
                                    \A n \in 1..Len(combined_df.rows) :
                                        LET rec == combined_df.rows[n]
                                        IN /\ AsStatedRounded(rec.Volume_Growth_Percent, rec.vals[1].v, rec.vals[3].v)
                                           /\ AsStatedRounded(rec.Price_Change_Percent, rec.vals[2].v, rec.vals[4].v)
                             /\ \A j \in 1..Len(report) :
                                    /\ report[j].step = "trends" =>
                                           \A w \in DOMAIN report[j].weekly_totals :
                                               LET t == report[j].weekly_totals[w]
                                               IN AsStatedRounded(t.Volume_Growth, t.Current_Week_Volume, t.Previous_Year_Volume)
                                    /\ report[j].step = "markets" =>
                                           \A n \in 1..Len(report[j].Volume_Growth) :
                                               AsStatedRounded(report[j].Volume_Growth[n], combined_df.rows[n].vals[1].v, combined_df.rows[n].vals[3].v)

----------------------------------------------------------------------------
(* EnhancedSeafoodDownloader.get_page_content *)

MaxRetries == 4

\* the page addresses asked for
Urls == {"archive", "week"}

\* the subclasses of requests.RequestException a request ends with:
\* session.get(url, timeout=30) raises the first two, raise_for_status the
\* third
Failures == {"Timeout", "ConnectionError", "HTTPError"}

\* 2 ** n
RECURSIVE pow2(_)
pow2(n) == IF n = 0 THEN 1 ELSE 2 * pow2(n - 1)

\* a wait growing by one second per attempt
backoff_Linear(n) == n + 1

\* the seconds slept after failed attempt n: 2 ** attempt
backoff(n) == pow2(n)

Get(outcome) == [ev |-> "get", outcome |-> outcome, secs |-> 0]

Sleep(secs) == [ev |-> "sleep", outcome |-> "", secs |-> secs]

FetchInit == /\ ExtractorIdle
             /\ NoCalls
             /\ LoaderIdle
             /\ RestIdle
             /\ url \in Urls
             /\ max_retries \in 0..MaxRetries
             /\ attempt = 0
             /\ events = <<>>
             /\ fetched = "running"

\* for attempt in range(max_retries)
InRange == fetched = "running" /\ attempt < max_retries

\* the request succeeds: return response.text
AttemptSucceeds == /\ InRange
                   /\ events' = Append(events, Get("ok"))
                   /\ fetched' = "text"
                   /\ UNCHANGED <<outsideFetch, url, max_retries, attempt>>

\* the request fails and the handler sleeps whatever the attempt
AttemptFailsSleeps_Always == /\ InRange
                             /\ \E f \in Failures : events' = events \o <<Get(f), Sleep(backoff(attempt))>>
                             /\ attempt' = attempt + 1
                             /\ UNCHANGED <<outsideFetch, url, max_retries, fetched>>

\* the request fails before the last attempt: time.sleep(2 ** attempt),
\* then the next attempt
AttemptFailsSleeps == /\ InRange
                      /\ attempt < max_retries - 1
                      /\ \E f \in Failures : events' = events \o <<Get(f), Sleep(backoff(attempt))>>
                      /\ attempt' = attempt + 1
                      /\ UNCHANGED <<outsideFetch, url, max_retries, fetched>>

\* the request fails at the last attempt: return None
AttemptFailsGivesUp == /\ InRange
                       /\ ~(attempt < max_retries - 1)
                       /\ \E f \in Failures : events' = Append(events, Get(f))
                       /\ fetched' = "None"
                       /\ UNCHANGED <<outsideFetch, url, max_retries, attempt>>

\* the range is used up: the function ends without a return statement
FallsThrough == /\ fetched = "running" /\ ~(attempt < max_retries)
                /\ fetched' = "None"
                /\ UNCHANGED <<outsideFetch, url, max_retries, attempt, events>>

FetchNext == \/ AttemptSucceeds
             \/ AttemptFailsSleeps
             \/ AttemptFailsGivesUp
             \/ FallsThrough

FetchSpec == FetchInit /\ [][FetchNext]_vars

\* the positions of the requests among the events
Requests == {j \in 1..Len(events) : events[j].ev = "get"}

\* the positions of the failed requests
Failed == {j \in Requests : events[j].outcome # "ok"}

\* C20: at most max_retries requests are made; the text is returned at the
\* first request that succeeds, no request follows it; None is returned
\* only after max_retries failed requests; a sleep comes only between a
\* failed request and the next one, never after the last failed request.
C20_BoundedRetry == /\ Cardinality(Requests) <= max_retries
                    /\ \A j \in Requests : events[j].outcome = "ok" => (j = Len(events) /\ fetched = "text")
                    /\ fetched = "text" => (events # <<>> /\ events[Len(events)] = Get("ok"))
                    /\ fetched = "None" => (Failed = Requests /\ Cardinality(Failed) = max_retries)
                    /\ \A j \in 1..Len(events) : events[j].ev = "sleep" =>
                           /\ j > 1 /\ (j - 1) \in Failed
                           /\ Cardinality({r \in Requests : r < j}) < max_retries
                           /\ fetched # "running" => (j + 1) \in Requests

C20_Witness == /\ max_retries = 3 /\ fetched = "None"
               /\ Len(events) = 5
               /\ Failed = {1, 3, 5}
               /\ events[2].ev = "sleep" /\ events[4].ev = "sleep"

\* the waits of the call, in the order they were made
Waits == LET at == SelectSeq(events, LAMBDA e : e.ev = "sleep") IN [n \in 1..Len(at) |-> at[n].secs]

\* C21 as stated: the waits grow by a constant amount from one retry to the
\* next.
C21_BackoffLinear == \A n \in 1..(Len(Waits) - 2) : Waits[n + 2] - Waits[n + 1] = Waits[n + 1] - Waits[n]

\* C21: the backoff is exponential: the first wait is one second and every
\* later wait is twice the wait before it, for every max_retries.
C21_BackoffDoubles == /\ Waits # <<>> => Waits[1] = 1
                      /\ \A n \in 1..(Len(Waits) - 1) : Waits[n + 1] = 2 * Waits[n]

C21_Witness == /\ max_retries = 4 /\ fetched = "None"
               /\ Waits = <<1, 2, 4>>

----------------------------------------------------------------------------
(* The explorations of the two downloaders:
   NorwegianSeafoodDownloader.find_excel_links / explore_page_for_excel and
   EnhancedSeafoodDownloader.explore_data_page *)

\* the depth at which the interpreter ends a recursion with RecursionError
MaxDepth == 4

\* the pages of a site; page 1 is where the exploration starts
Pages == {1, 2, 3}

\* the links or frames of every page
Relations == [Pages -> SUBSET Pages]

\* a few relations for the kind of reference an explorer does not follow
FewRelations == {[p \in Pages |-> {}], [p \in Pages |-> {p}], [p \in Pages |-> Pages]}

Explorers == {"norwegian", "enhanced"}

\* the pages a page sends the explorer to: the anchors whose text holds a
\* keyword and whose address is no workbook, or the iframes
Followed(p) == IF explorer = "norwegian" THEN site.links[p] ELSE site.frames[p]

\* the pages of a set in the order of the document
RECURSIVE InOrder(_)
InOrder(ps) == IF ps = {} THEN <<>> ELSE LET p == CHOOSE q \in ps : \A r \in ps : q <= r IN <<p>> \o InOrder(ps \ {p})

\* the call for page p: the targets it has still to explore
Frame(p) == [page |-> p, todo |-> InOrder(Followed(p))]

\* the first page is fetched and, unless the fetch gave nothing, explored
ExploreInit == /\ ExploreAlone
               /\ explorer \in Explorers
               /\ site \in [links : Relations, frames : Relations]
               /\ (explorer = "norwegian" => site.frames \in FewRelations)
               /\ (explorer = "enhanced" => site.links \in FewRelations)
               /\ down \in {{}, {3}}
               /\ stack = <<Frame(1)>>
               /\ fetches = [p \in Pages |-> IF p = 1 THEN 1 ELSE 0]
               /\ explored = "running"

Top == stack[Len(stack)]

\* the stack with the first target of its top call taken off
Advanced == [stack EXCEPT ![Len(stack)].todo = Tail(Top.todo)]

\* the call for the next target: get_page_content gives nothing, return []
ExploreNothing == /\ explored = "running" /\ Top.todo # <<>>
                  /\ Len(stack) < MaxDepth
                  /\ Head(Top.todo) \in down
                  /\ fetches' = [fetches EXCEPT ![Head(Top.todo)] = @ + 1]
                  /\ stack' = Advanced
                  /\ UNCHANGED <<outsideExplore, explorer, site, down, explored>>

\* the call for the next target: the page is fetched and explored in turn
ExploreDeeper == /\ explored = "running" /\ Top.todo # <<>>
                 /\ Len(stack) < MaxDepth
                 /\ Head(Top.todo) \notin down
                 /\ fetches' = [fetches EXCEPT ![Head(Top.todo)] = @ + 1]
                 /\ stack' = Append(Advanced, Frame(Head(Top.todo)))
                 /\ UNCHANGED <<outsideExplore, explorer, site, down, explored>>

\* the call for the next target exceeds the recursion limit: RecursionError
\* leaves every call of the stack, nothing catches it
ExploreOverflow == /\ explored = "running" /\ Top.todo # <<>>
                   /\ Len(stack) = MaxDepth
                   /\ explored' = "RecursionError"
                   /\ UNCHANGED <<outsideExplore, explorer, site, down, stack, fetches>>

\* every target of the page was explored: return the files found
ExploreReturn == /\ explored = "running" /\ Top.todo = <<>>
                 /\ stack' = SubSeq(stack, 1, Len(stack) - 1)
                 /\ explored' = IF Len(stack) = 1 THEN "returned" ELSE "running"
                 /\ UNCHANGED <<outsideExplore, explorer, site, down, fetches>>

ExploreNext == \/ ExploreNothing
               \/ ExploreDeeper
               \/ ExploreOverflow
               \/ ExploreReturn

ExploreSpec == ExploreInit /\ [][ExploreNext]_vars

\* C22: on every finite site, cycles and self-references included, the
\* exploration returns: the recursion never runs until the interpreter
\* stops it.
C22_ExplorationReturns == explored # "RecursionError"

----------------------------------------------------------------------------
(* download_file and the download loop of download_all_data, in
   NorwegianSeafoodDownloader and EnhancedSeafoodDownloader *)

MaxLinks == 3

\* the workbooks the exploration can have found; the same workbook can be
\* found through several links
Found == {"laks.xlsx", "sild.xlsx"}

LinkSeqs == UNION {[1..n -> Found] : n \in 0..MaxLinks}

\* what ends the try block of download_file early: the request or
\* raise_for_status, or opening and writing the file
DownloadErrors == {"RequestException", "OSError"}

Downloaders == {"norwegian", "enhanced"}

\* __init__: both lists empty; the files found by the exploration
DownloadInit == /\ DownloadAlone
                /\ downloader \in Downloaders
                /\ all_files \in LinkSeqs
                /\ attempted = 0
                /\ downloaded_files = <<>>
                /\ failed_downloads = <<>>
                /\ returned = <<>>

\* the file of the current iteration of the loop
NextFile == all_files[attempted + 1]

\* download_file, the try block run to its end: one entry more in
\* downloaded_files, return True
DownloadSucceeds == /\ attempted < Len(all_files)
                    /\ downloaded_files' = Append(downloaded_files, [filename |-> NextFile, at |-> attempted + 1])
                    /\ returned' = Append(returned, TRUE)
                    /\ attempted' = attempted + 1
                    /\ UNCHANGED <<outsideDownload, downloader, all_files, failed_downloads>>

\* download_file, an exception in the try block: one entry more in
\* failed_downloads, return False
DownloadFailsCaught == /\ attempted < Len(all_files)
                       /\ \E e \in DownloadErrors : failed_downloads' = Append(failed_downloads, [filename |-> NextFile, at |-> attempted + 1, error |-> e])
                       /\ returned' = Append(returned, FALSE)
                       /\ attempted' = attempted + 1
                       /\ UNCHANGED <<outsideDownload, downloader, all_files, downloaded_files>>

DownloadNext == \/ DownloadSucceeds
                \/ DownloadFailsCaught

DownloadSpec == DownloadInit /\ [][DownloadNext]_vars

\* the file names of a list of entries
Names(entries) == {entries[n].filename : n \in 1..Len(entries)}

\* C23: every call adds exactly one entry to exactly one list and returns,
\* the lengths of the two lists add up to the number of attempts, and no
\* attempted file is in both lists.
C23_OneListPerFile == /\ Len(downloaded_files) + Len(failed_downloads) = attempted
                      /\ Len(returned) = attempted
                      /\ Names(downloaded_files) \cap Names(failed_downloads) = {}

----------------------------------------------------------------------------
(* The cells of the notebook after the processing cell *)

\* C24: whatever download_seafood_data and process_seafood_data gave, the
\* cells of the notebook run to the end and none of them raises.
C24_NotebookCellsRun == loader = "notebook" => ~escaped

----------------------------------------------------------------------------
(* The pipeline drivers: run_comprehensive_analysis, run_complete_analysis *)

\* the steps of a driver after its load
AfterLoad == {"analyze", "insights"}

\* C25: a driver enters its analysis and insight steps only after a load
\* that gave at least one record, the insights after the analysis; with no
\* record none of the steps runs.
C25_StepsOnlyWithRecords == loader \in {"comprehensive", "real"} =>
                                /\ lpc \in AfterLoad => (combined_df.status = "frame" /\ combined_df.rows # <<>>)
                                /\ report # <<>> => (combined_df.rows # <<>> /\ report[1].step \in {"trends", "weekly"})
                                /\ \A j \in 1..Len(report) : report[j].step = "insights" => j = Len(report)

----------------------------------------------------------------------------
(* The fishing-events notebook: the loading cell, process_fishing_events,
   prepare_port_analysis_data, the save cell and the processing report *)

MaxListing == 2

MaxEvents == 2

\* a null in a string column
NullStr == "null"

\* a null in a numeric or timestamp column
Null == [kind |-> "null", n |-> 0, d |-> 1]

\* a timestamp string in the format yyyy-MM-dd'T'HH:mm:ss'Z', by the
\* seconds it stands for, and a string in another format
Stamp(t) == [kind |-> "stamp", n |-> t, d |-> 1]

BadStamp == [kind |-> "bad", n |-> 0, d |-> 1]

Event(type, port, pname, vessel, start, end, dur) == [event_type |-> type, port_id |-> port, port_name |-> pname, vessel_id |-> vessel, start |-> start, end |-> end, duration_hours |-> dur]

\* the events a file can hold
Events == {Event("port_visit", "p1", "Bergen", "v1", Stamp(0), Stamp(7200), Ratio(5, 1)),
           Event("port_visit", "p1", "Bergen", "v2", Stamp(0), Stamp(5400), Null),
           Event("port_visit", "p2", "Vigo", "v1", Null, Stamp(7200), Null),
           Event("port_visit", "p2", "Vigo", "v1", Stamp(0), BadStamp, Null),
           Event("port_visit", "p1", "Bergen", "v1", Stamp(7200), Stamp(0), Null),
           Event("fishing", "p1", "Bergen", "v1", Stamp(0), Stamp(3600), Ratio(9000, 1)),
           Event("port_visit", "p1", "Bergen", "v1", Stamp(0), Stamp(3600), Ratio(9000, 1)),
           Event("port_visit", NullStr, "Bergen", "v1", Stamp(0), Stamp(3600), Ratio(1, 1)),
           Event("port_visit", "p1", NullStr, NullStr, Stamp(0), Stamp(3600), Ratio(1, 1))}

Payloads == UNION {[1..n -> Events] : n \in 0..MaxEvents}

\* the entries dbutils.fs.ls can give: name and modification time
Entries == [name : {<<"a", ".json">>, <<"b", ".json">>, <<"c", ".csv">>}, modificationTime : {1, 2}]

Listings == {l \in UNION {[1..n -> Entries] : n \in 0..MaxListing} : \A a \in 1..Len(l) : \A b \in 1..Len(l) : l[a].name = l[b].name => a = b}

FishInit == /\ FishAlone
            /\ listing \in Listings
            /\ payload \in Payloads
            /\ at_cell = "load"
            /\ read_files = <<>>
            /\ raw_df = Unset
            /\ processed_events_df = Unset
            /\ port_visits_df = Unset
            /\ port_analysis_df = Unset
            /\ processing_report = Unset

\* f.name.endswith('.json')
IsJson(f) == f.name[Len(f.name)] = ".json"

\* json_files, as the positions of the listing
json_files == {j \in 1..Len(listing) : IsJson(listing[j])}

\* the oldest file taken instead
latest_file_Oldest == CHOOSE j \in json_files : \A o \in json_files : listing[j].modificationTime < listing[o].modificationTime \/ (listing[j].modificationTime = listing[o].modificationTime /\ j <= o)

\* sorted(json_files, key=modificationTime, reverse=True)[0]: the sort is
\* stable, of equal times the first of the listing stays first
latest_file == CHOOSE j \in json_files : \A o \in json_files : listing[j].modificationTime > listing[o].modificationTime \/ (listing[j].modificationTime = listing[o].modificationTime /\ j <= o)

\* raise Exception("No JSON files found in input path"), printed and
\* raised again: the run of the notebook ends
LoadRaises == /\ at_cell = "load"
              /\ json_files = {}
              /\ at_cell' = "failed"
              /\ UNCHANGED <<outsideFish, listing, payload, read_files, raw_df, processed_events_df, port_visits_df, port_analysis_df, processing_report>>

\* spark.read...json(latest_file_path)
LoadLatest == /\ at_cell = "load"
              /\ json_files # {}
              /\ read_files' = Append(read_files, latest_file)
              /\ raw_df' = [status |-> "frame", rows |-> payload]
              /\ at_cell' = "process"
              /\ UNCHANGED <<outsideFish, listing, payload, processed_events_df, port_visits_df, port_analysis_df, processing_report>>

\* to_timestamp(col, "yyyy-MM-dd'T'HH:mm:ss'Z'"): null for a null and for a
\* string in another format
to_timestamp(x) == IF x.kind = "stamp" THEN [kind |-> "ts", n |-> x.n, d |-> 1] ELSE Null

isNull(x) == x.kind = "null"

isNotNull(x) == x.kind # "null"

\* the duration computed whatever was provided
duration_Always(e, start_time, end_time) ==
    IF isNotNull(end_time) /\ isNotNull(start_time) THEN Ratio(end_time.n - start_time.n, 3600) ELSE e.duration_hours

\* when(duration_hours.isNull() & end_time.isNotNull() & start_time.isNotNull(),
\*      (unix_timestamp(end_time) - unix_timestamp(start_time)) / 3600)
\* .otherwise(duration_hours)
duration(e, start_time, end_time) ==
    IF isNull(e.duration_hours) /\ isNotNull(end_time) /\ isNotNull(start_time) THEN Ratio(end_time.n - start_time.n, 3600) ELSE e.duration_hours

\* the row process_fishing_events makes of event n of its input, from the
\* events array or from input that is flat already
Processed(e, n) == [row |-> n, event_type |-> e.event_type, port_id |-> e.port_id, port_name |-> e.port_name, vessel_id |-> e.vessel_id,
                    start_time |-> to_timestamp(e.start), end_time |-> to_timestamp(e.end),
                    duration_hours |-> duration(e, to_timestamp(e.start), to_timestamp(e.end))]

\* a string of the input does not parse and the session runs in ANSI mode:
\* the count of line 170 raises, the handler prints and raises again
HasBadStamp == \E n \in 1..Len(raw_df.rows) : raw_df.rows[n].start.kind = "bad" \/ raw_df.rows[n].end.kind = "bad"

ProcessRaises == /\ at_cell = "process"
                 /\ HasBadStamp
                 /\ at_cell' = "failed"
                 /\ UNCHANGED <<outsideFish, listing, payload, read_files, raw_df, processed_events_df, port_visits_df, port_analysis_df, processing_report>>

\* processed_events_df, port_visits_df = process_fishing_events(raw_df)
Process == /\ at_cell = "process"
           /\ processed_events_df' = [status |-> "frame", rows |-> [n \in 1..Len(raw_df.rows) |-> Processed(raw_df.rows[n], n)]]
           /\ port_visits_df' = [status |-> "frame", rows |-> SelectSeq(processed_events_df'.rows, LAMBDA r : r.event_type = "port_visit")]
           /\ at_cell' = "prepare"
           /\ UNCHANGED <<outsideFish, listing, payload, read_files, raw_df, port_analysis_df, processing_report>>

\* x > 0 and x <= 8760 for a fraction with a positive denominator
InHours(x) == x.n > 0 /\ x.n <= 8760 * x.d

\* the filter without its upper limit
valid_port_visit_NoLimit(r) == /\ r.port_id # NullStr /\ r.port_name # NullStr /\ r.vessel_id # NullStr
                               /\ isNotNull(r.start_time)
                               /\ isNotNull(r.duration_hours)
                               /\ r.duration_hours.n > 0

\* the filter of prepare_port_analysis_data
valid_port_visit(r) == /\ r.port_id # NullStr /\ r.port_name # NullStr /\ r.vessel_id # NullStr
                       /\ isNotNull(r.start_time)
                       /\ isNotNull(r.duration_hours)
                       /\ InHours(r.duration_hours)

\* port_analysis_df = prepare_port_analysis_data(port_visits_df)
Prepare == /\ at_cell = "prepare"
           /\ port_analysis_df' = [status |-> "frame", rows |-> SelectSeq(port_visits_df.rows, valid_port_visit)]
           /\ at_cell' = "save"
           /\ UNCHANGED <<outsideFish, listing, payload, read_files, raw_df, processed_events_df, port_visits_df, processing_report>>

\* the three saves of the save cell went through
SaveCell == /\ at_cell = "save"
            /\ at_cell' = "report"
            /\ UNCHANGED <<outsideFish, listing, payload, read_files, raw_df, processed_events_df, port_visits_df, port_analysis_df, processing_report>>

\* one of the saves raised: the run of the notebook ends
SaveCellRaises == /\ at_cell = "save"
                  /\ at_cell' = "failed"
                  /\ UNCHANGED <<outsideFish, listing, payload, read_files, raw_df, processed_events_df, port_visits_df, port_analysis_df, processing_report>>

\* (port_analysis_df.count() / port visits.count()) * 100 if port visits.count() > 0 else 0
valid_port_visits_percentage == LET visits == Len(SelectSeq(processed_events_df.rows, LAMBDA r : r.event_type = "port_visit"))
                                IN IF visits > 0 THEN Ratio(Len(port_analysis_df.rows) * 100, visits) ELSE Zero

\* the processing report
Report == /\ at_cell = "report"
          /\ processing_report' = [status |-> "frame", rows |-> <<[total_events_processed |-> Len(processed_events_df.rows), port_visits_processed |-> Len(port_analysis_df.rows), valid_port_visits_percentage |-> valid_port_visits_percentage]>>]
          /\ at_cell' = "done"
          /\ UNCHANGED <<outsideFish, listing, payload, read_files, raw_df, processed_events_df, port_visits_df, port_analysis_df>>

FishNext == \/ LoadRaises
            \/ LoadLatest
            \/ ProcessRaises
            \/ Process
            \/ Prepare
            \/ SaveCell
            \/ SaveCellRaises
            \/ Report

FishSpec == FishInit /\ [][FishNext]_vars

\* the rows of a table, by their position in processed_events_df
RowsOf(df) == {df.rows[n].row : n \in 1..Len(df.rows)}

\* every row of the first table is a row of the second
SubTable(a, b) == \A n \in 1..Len(a.rows) : \E o \in 1..Len(b.rows) : a.rows[n] = b.rows[o]

\* C26: every row of port_analysis_df is a port visit with port, vessel and
\* start known and a duration over 0 and up to 8760 hours; port_analysis_df
\* is within port_visits_df, which is within processed_events_df; the
\* percentage of the report lies in 0..100 and is 0 without port visits.
C26_PortAnalysisValid == /\ port_analysis_df.status = "frame" =>
                                /\ \A n \in 1..Len(port_analysis_df.rows) :
                                       LET r == port_analysis_df.rows[n]
                                       IN /\ r.event_type = "port_visit"
                                          /\ r.port_id # NullStr /\ r.port_name # NullStr /\ r.vessel_id # NullStr
                                          /\ r.start_time.kind = "ts"
                                          /\ r.duration_hours.kind = "num"
                                          /\ r.duration_hours.n * r.duration_hours.d > 0
                                          /\ r.duration_hours.n <= 8760 * r.duration_hours.d
                                /\ SubTable(port_analysis_df, port_visits_df)
                                /\ SubTable(port_visits_df, processed_events_df)
                                /\ Cardinality(RowsOf(port_analysis_df)) = Len(port_analysis_df.rows)
                         /\ processing_report.status = "frame" =>
                                LET share == processing_report.rows[1].valid_port_visits_percentage
                                IN /\ share.kind = "num" /\ share.d > 0
                                   /\ 0 <= share.n /\ share.n <= 100 * share.d
                                   /\ (\A n \in 1..Len(payload) : payload[n].event_type # "port_visit") => share.n = 0

C26_Witness == /\ processing_report.status = "frame"
               /\ Len(port_visits_df.rows) = 2
               /\ Len(port_analysis_df.rows) = 1
               /\ port_visits_df.rows[2].duration_hours = Ratio(9000, 1)
               /\ processing_report.rows[1].valid_port_visits_percentage = Ratio(100, 2)

\* C27: after process_fishing_events a provided duration is what it was;
\* a duration is the hours from start to end only where none was provided
\* and both timestamps are there; it is null otherwise; the events are
\* those of the input, none more and none less.
C27_DurationKept == processed_events_df.status = "frame" =>
                        /\ Len(processed_events_df.rows) = Len(payload)
                        /\ \A n \in 1..Len(payload) :
                               LET e == payload[n]
                                   r == processed_events_df.rows[n]
                               IN /\ r.row = n /\ r.event_type = e.event_type /\ r.vessel_id = e.vessel_id /\ r.port_id = e.port_id
                                  /\ e.duration_hours.kind = "num" => r.duration_hours = e.duration_hours
                                  /\ (e.duration_hours.kind = "null" /\ e.start.kind = "stamp" /\ e.end.kind = "stamp") =>
                                         (r.duration_hours.kind = "num" /\ r.duration_hours.n * 3600 = (e.end.n - e.start.n) * r.duration_hours.d)
                                  /\ (e.duration_hours.kind = "null" /\ (e.start.kind # "stamp" \/ e.end.kind # "stamp")) =>
                                         r.duration_hours.kind = "null"

C27_Witness == /\ processed_events_df.status = "frame" /\ Len(payload) = 2
               /\ payload[1].duration_hours = Ratio(5, 1) /\ payload[1].start = Stamp(0) /\ payload[1].end = Stamp(7200)
               /\ processed_events_df.rows[1].duration_hours = Ratio(5, 1)
               /\ payload[2].duration_hours = Null
               /\ processed_events_df.rows[2].duration_hours = Ratio(5400, 3600)

\* C28: exactly one file is read, a file of the listing whose name ends in
\* .json and whose modification time no other such file exceeds; without
\* such a file the loading cell raises and no later cell runs.
C28_LatestJsonRead == /\ Len(read_files) <= 1
                      /\ at_cell \notin {"load", "failed"} => Len(read_files) = 1
                      /\ \A k \in 1..Len(read_files) :
                             LET f == listing[read_files[k]]
                             IN /\ f.name[Len(f.name)] = ".json"
                                /\ \A o \in 1..Len(listing) : listing[o].name[Len(listing[o].name)] = ".json" => listing[o].modificationTime <= f.modificationTime
                      /\ (\A o \in 1..Len(listing) : listing[o].name[Len(listing[o].name)] # ".json") =>
                             /\ at_cell \in {"load", "failed"}
                             /\ read_files = <<>> /\ raw_df = Unset /\ processed_events_df = Unset
                             /\ port_analysis_df = Unset /\ processing_report = Unset

C28_Witness == /\ at_cell = "done"
               /\ Len(listing) = 2
               /\ listing[1].name = <<"a", ".json">> /\ listing[1].modificationTime = 1
               /\ listing[2].name = <<"b", ".json">> /\ listing[2].modificationTime = 2
               /\ read_files = <<2>>

\* ---- save_processed_data and the saves of the notebook ----

\* the file names of the saves, in the order of the notebook
file_names == <<"processed_fishing_events", "port_visit_analysis", "port_summary_stats", "processing_report">>

\* full_output_path, the directory Spark writes
full_output_path(file_name) == <<file_name, "dir">>

\* a part file of that directory
part_file(file_name) == <<file_name, "part-0.csv">>

\* desired_path, the file under its final name
desired_path(file_name) == <<file_name, ".csv">>

\* what earlier runs can have left in the storage
Leftovers == {desired_path(file_names[n]) : n \in 1..Len(file_names)} \cup {full_output_path(file_names[n]) : n \in 1..Len(file_names)}

SaveInit == /\ SaveAlone
            /\ file_no = 1
            /\ at_step = "write"
            /\ storage \in SUBSET Leftovers
            /\ csv_file = <<>>
            /\ steps_taken = <<>>

\* the file name of the save under way
file_name == file_names[file_no]

Took(step, ok) == steps_taken' = Append(steps_taken, [file_name |-> file_name, step |-> step, ok |-> ok])

\* df.coalesce(1).write.mode("overwrite").csv(full_output_path): the
\* directory is there afterwards, with a part-*.csv file or with the
\* output under another name (a compression codec adds its suffix)
Write == /\ at_step = "write"
         /\ \E named \in BOOLEAN :
                storage' = (storage \cup {full_output_path(file_name)} \cup (IF named THEN {part_file(file_name)} ELSE {})) \ (IF named THEN {} ELSE {part_file(file_name)})
         /\ Took("write", TRUE)
         /\ at_step' = "ls"
         /\ UNCHANGED <<outsideSave, file_no, csv_file>>

\* files = dbutils.fs.ls(full_output_path); csv_file = [...][0]
Locate == /\ at_step = "ls"
          /\ part_file(file_name) \in storage
          /\ csv_file' = part_file(file_name)
          /\ Took("ls", TRUE)
          /\ at_step' = "cp"
          /\ UNCHANGED <<outsideSave, file_no, storage>>

\* dbutils.fs.cp(csv_file.path, desired_path)
Copy == /\ at_step = "cp"
        /\ storage' = storage \cup {desired_path(file_name)}
        /\ Took("cp", TRUE)
        /\ at_step' = "rm"
        /\ UNCHANGED <<outsideSave, file_no, csv_file>>

\* dbutils.fs.rm(full_output_path, recurse=True)
Remove == /\ at_step = "rm"
          /\ storage' = storage \ {full_output_path(file_name), part_file(file_name)}
          /\ Took("rm", TRUE)
          /\ at_step' = "return"
          /\ UNCHANGED <<outsideSave, file_no, csv_file>>

\* the handler goes on to the next save instead of raising again
StepRaises_Swallowed == /\ at_step \in {"write", "ls", "cp", "rm"}
                        /\ Took(at_step, FALSE)
                        /\ at_step' = "return"
                        /\ UNCHANGED <<outsideSave, file_no, storage, csv_file>>

\* a step of the try block raises (the storage refuses, or the list of
\* part files is empty and [0] raises IndexError): the handler prints and
\* raises again, the notebook stops
StepRaises == /\ at_step \in {"write", "ls", "cp", "rm"}
              /\ Took(at_step, FALSE)
              /\ at_step' = "raised"
              /\ UNCHANGED <<outsideSave, file_no, storage, csv_file>>

\* save_processed_data returns and the notebook reaches its next save
NextSave == /\ at_step = "return"
            /\ file_no < Len(file_names)
            /\ file_no' = file_no + 1
            /\ at_step' = "write"
            /\ csv_file' = <<>>
            /\ UNCHANGED <<outsideSave, storage, steps_taken>>

\* the last save returned
SavesDone == /\ at_step = "return"
             /\ file_no = Len(file_names)
             /\ at_step' = "done"
             /\ UNCHANGED <<outsideSave, file_no, storage, csv_file, steps_taken>>

SaveNext == \/ Write
            \/ Locate
            \/ Copy
            \/ Remove
            \/ StepRaises
            \/ NextSave
            \/ SavesDone

SaveSpec == SaveInit /\ [][SaveNext]_vars

\* the steps of one save, in the order the claim gives
StepOrder == <<"write", "ls", "cp", "rm">>

\* C29: the steps of a save are write, locate the part file, copy, remove
\* the temporary directory, in that order; the directory is removed only
\* after the copy succeeded; a failure is raised again, so that nothing of
\* this or a later save follows it.
C29_SaveOrder == /\ \A k \in 1..Len(steps_taken) :
                        /\ steps_taken[k].file_name = file_names[((k - 1) \div 4) + 1]
                        /\ steps_taken[k].step = StepOrder[((k - 1) % 4) + 1]
                        /\ ~steps_taken[k].ok => (k = Len(steps_taken) /\ at_step = "raised")
                        /\ steps_taken[k].step = "rm" =>
                               \E j \in 1..(k - 1) : steps_taken[j] = [file_name |-> steps_taken[k].file_name, step |-> "cp", ok |-> TRUE]
                 /\ at_step = "raised" => (Len(steps_taken) >= 1 /\ ~steps_taken[Len(steps_taken)].ok)
                 /\ \A n \in 1..Len(file_names) :
                        ((\E k \in 1..Len(steps_taken) : steps_taken[k] = [file_name |-> file_names[n], step |-> "write", ok |-> TRUE])
                             /\ full_output_path(file_names[n]) \notin storage) =>
                            /\ \E k \in 1..Len(steps_taken) : steps_taken[k] = [file_name |-> file_names[n], step |-> "cp", ok |-> TRUE]
                            /\ desired_path(file_names[n]) \in storage

C29_Witness == /\ at_step = "raised"
               /\ file_no = 2
               /\ Len(steps_taken) = 7
               /\ steps_taken[7] = [file_name |-> "port_visit_analysis", step |-> "cp", ok |-> FALSE]
               /\ full_output_path("port_visit_analysis") \in storage
               /\ full_output_path("processed_fishing_events") \notin storage
               /\ desired_path("processed_fishing_events") \in storage

====
